---- MODULE Spec2Model ----
(***************************************************************************)
(* Model of the blog automation utilities:                                 *)
(*   src/utils/shouldRunWorkflow.js  the 36 hour scheduler gate            *)
(*   src/utils/topicTracker.js       the round-robin topic cursor          *)
(*   src/utils/fetchAndSavePost.js   the generation pipeline               *)
(* Each script is one process: it reads its tracker file, decides, writes  *)
(* the file and exits.  Nothing is kept in memory between two runs, so the *)
(* state of the system is the content of the two tracker files, the wall   *)
(* clock, and logs of what each run did (the logs are history variables).  *)
(***************************************************************************)
EXTENDS Integers, Sequences, FiniteSets

VARIABLES
    workflowTracker,  \* content of data/workflowTracker.json
    clock,            \* the Date.now() of the most recent gate check
    gateLog,          \* one entry per gate check (history)
    topics,           \* the catalog imported from data/topics.js
    topicTracker,     \* content of data/topicTracker.json
    cursorLog,        \* one entry per getNextTopic call (history)
    pipelineLog,      \* one entry per fetchAndSavePost run (history)
    gateProc,         \* the gate script while it runs statement by statement
    cursorProc,       \* a getNextTopic call while it runs statement by statement
    blog,             \* the files of src/content/blog: file name -> content
    pipeProc,         \* the pipeline script while it runs statement by statement
    racers            \* two scripts of one kind running at the same time

gateVars == <<workflowTracker, clock, gateLog, gateProc>>
cursorVars == <<topics, topicTracker, cursorLog, cursorProc>>
pipeVars == <<blog, pipeProc>>
vars == <<workflowTracker, clock, gateLog, gateProc, topics, topicTracker, cursorLog,
          cursorProc, pipelineLog, blog, pipeProc, racers>>

(***************************************************************************)
(* JavaScript values that can come out of a tracker file.  A value is a    *)
(* record [t, v]; v is the number when t = "number" and 0 otherwise.       *)
(* Str stands for a non-empty, non-numeric string such as "abc".           *)
(***************************************************************************)
Num(n) == [t |-> "number", v |-> n]
Undefined == [t |-> "undefined", v |-> 0]
Null == [t |-> "null", v |-> 0]
NaN == [t |-> "NaN", v |-> 0]
Str == [t |-> "string", v |-> 0]

IsNum(x) == x.t = "number"

(***************************************************************************)
(* Content of a tracker file.                                              *)
(*   missing      fs.existsSync is false                                   *)
(*   empty        the file holds nothing but white space                   *)
(*   unparseable  JSON.parse throws, or yields null so that the property   *)
(*                access throws: both end in the catch block               *)
(*   json         JSON.parse yields a value; val is the value of the       *)
(*                tracked property, Undefined when the property is absent  *)
(***************************************************************************)
Missing == [kind |-> "missing", val |-> Undefined]
Empty == [kind |-> "empty", val |-> Undefined]
Unparseable == [kind |-> "unparseable", val |-> Undefined]
Json(x) == [kind |-> "json", val |-> x]

\* JSON.stringify({ key: x }): NaN is written as null, an undefined property
\* is left out, numbers and strings are written as they are.
JsonStringify(x) ==
    IF x.t = "NaN" THEN Json(Null)
    ELSE Json(x)

(***************************************************************************)
(* Bounds of the model.                                                    *)
(***************************************************************************)
MaxWindows == 2     \* gate checks happen within this many cooldowns of time 0
MaxOffset == 1      \* ... at most this many milliseconds around a multiple
MaxChecks == 3      \* gate checks per behaviour

(***************************************************************************)
(* shouldRunWorkflow.js                                                    *)
(***************************************************************************)
HOURS_36_IN_MS == 36 * 60 * 60 * 1000

\* The instants at which the model reads the clock: the milliseconds around
\* the multiples of the cooldown, after the epoch.
Times ==
    { k * HOURS_36_IN_MS + o : k \in 0..MaxWindows, o \in (0 - MaxOffset)..MaxOffset }
        \cap { t \in Int : t >= 1 }

\* Faulty variant of getLastRan: the catch block hands back the text it could
\* not parse.
getLastRanNoCatch(file) ==
    IF file.kind = "missing" THEN Num(0)
    ELSE IF file.kind = "empty" THEN Num(0)
    ELSE IF file.kind = "unparseable" THEN Str
    ELSE IF file.val.t \in {"undefined", "null", "NaN"} THEN Num(0)
    ELSE IF file.val = Num(0) THEN Num(0)
    ELSE file.val

\* Faulty variant of getLastRan: a property the record never has is read.
getLastRanWrongKey(file) == Num(0)

\* getLastRan: 0 for a missing, empty or unparseable file, else data.lastRan || 0
\* (undefined, null, 0 and NaN are falsy; a non-empty string is truthy).
getLastRan(file) ==
    IF file.kind = "missing" THEN Num(0)
    ELSE IF file.kind = "empty" THEN Num(0)
    ELSE IF file.kind = "unparseable" THEN Num(0)
    ELSE IF file.val.t \in {"undefined", "null", "NaN"} THEN Num(0)
    ELSE IF file.val = Num(0) THEN Num(0)
    ELSE file.val

\* Faulty variant of updateLastRan: the timestamp is stored in seconds.
updateLastRanSeconds(timestamp) == JsonStringify(Num(timestamp \div 1000))

\* updateLastRan: the file content written by
\* fs.writeFileSync(TRACKER_FILE, JSON.stringify({ lastRan: timestamp })).
updateLastRan(timestamp) == JsonStringify(Num(timestamp))

\* Faulty variant of timeSinceLastRun: the distance between the two instants.
timeSinceLastRunAbs(now, lastRan) ==
    IF IsNum(lastRan)
    THEN IF now >= lastRan.v THEN Num(now - lastRan.v) ELSE Num(lastRan.v - now)
    ELSE NaN

\* now - lastRan: a number for a number, NaN for a non-numeric string.
timeSinceLastRun(now, lastRan) ==
    IF IsNum(lastRan) THEN Num(now - lastRan.v) ELSE NaN

\* Faulty variant of Elapsed: > in place of >=.
ElapsedStrict(now, lastRan) ==
    \/ lastRan = Num(0)
    \/ /\ IsNum(lastRan)
       /\ now - lastRan.v > HOURS_36_IN_MS

\* Faulty variant of Elapsed: no special case for lastRan === 0.
ElapsedNoFirstRun(now, lastRan) ==
    /\ IsNum(lastRan)
    /\ now - lastRan.v >= HOURS_36_IN_MS

\* The condition of the if statement of shouldRun (=== is strict, and every
\* comparison with NaN is false).
Elapsed(now, lastRan) ==
    \/ lastRan = Num(0)
    \/ /\ IsNum(timeSinceLastRun(now, lastRan))
       /\ timeSinceLastRun(now, lastRan).v >= HOURS_36_IN_MS

\* new Date(lastRan).toISOString() in the first console.log of shouldRun throws
\* a RangeError when lastRan is not a valid time value.
LogThrows(lastRan) == ~IsNum(lastRan)


\* shouldRun, for one value of Date.now(): the decision and the file it leaves.
shouldRunResult(file, now) ==
    IF LogThrows(getLastRan(file)) THEN "threw"
    ELSE IF Elapsed(now, getLastRan(file)) THEN "true"
    ELSE "false"

\* Faulty variant of shouldRunFile: the record is written by every check that reaches
\* the decision, granted or not.
shouldRunFileAlways(file, now) ==
    IF LogThrows(getLastRan(file)) THEN file ELSE updateLastRan(now)

shouldRunFile(file, now) ==
    IF shouldRunResult(file, now) = "true" THEN updateLastRan(now) ELSE file

\* Faulty variant of ShouldRun: a gate check that returns true also removes
\* the cursor record.
ShouldRunResetsCursor(now) ==
    /\ Len(gateLog) < MaxChecks
    /\ now >= clock
    /\ clock' = now
    /\ workflowTracker' = shouldRunFile(workflowTracker, now)
    /\ topicTracker' = IF shouldRunResult(workflowTracker, now) = "true" THEN Missing
                       ELSE topicTracker
    /\ gateLog' = Append(gateLog,
                    [now |-> now,
                     before |-> workflowTracker,
                     result |-> shouldRunResult(workflowTracker, now),
                     after |-> shouldRunFile(workflowTracker, now)])
    /\ UNCHANGED <<topics, cursorLog, cursorProc, pipelineLog, pipeVars, racers, gateProc>>

\* One run of the gate script.  The clock never runs backwards between two
\* runs.  The script exits with status 0 exactly when shouldRun returns true.
ShouldRun(now) ==
    /\ Len(gateLog) < MaxChecks
    /\ now >= clock
    /\ clock' = now
    /\ workflowTracker' = shouldRunFile(workflowTracker, now)
    /\ gateLog' = Append(gateLog,
                    [now |-> now,
                     before |-> workflowTracker,
                     result |-> shouldRunResult(workflowTracker, now),
                     after |-> shouldRunFile(workflowTracker, now)])
    /\ UNCHANGED <<cursorVars, pipelineLog, pipeVars, racers, gateProc>>

(***************************************************************************)
(* data/topics.js: the catalog, in the order of the file.  A topic is      *)
(* represented by its title; no two entries of the file share a title.     *)
(***************************************************************************)
ShippedTopics ==
    <<
        "Modern State Management in React",
        "CSS Grid vs Flexbox",
        "Next.js Routing Deep Dive",
        "Progressive Web Apps (PWAs)",
        "Optimizing Web Performance",
        "Web Accessibility (a11y) Best Practices",
        "CI/CD Pipelines Explained",
        "Docker Essentials for Developers",
        "Kubernetes 101",
        "Monitoring & Logging in DevOps",
        "Infrastructure as Code (IaC)",
        "GitOps Principles",
        "AWS Lambda Serverless Functions",
        "Azure App Services Explained",
        "Google Cloud Storage Best Practices",
        "Cloud Cost Management",
        "Multi-Cloud Strategies",
        "Cloud Security Best Practices",
        "Introduction to Machine Learning for Developers",
        "Using AI in Web Applications",
        "Deploying ML Models to Production",
        "NLP Basics for Developers",
        "Computer Vision in Web Apps",
        "Generative AI for Content Creation",
        "Building a SaaS MVP",
        "Subscription Billing Best Practices",
        "Scaling SaaS Applications",
        "SaaS Analytics and Metrics",
        "User Onboarding Strategies",
        "SaaS Security Best Practices",
        "TypeScript for JavaScript Developers",
        "Python for Web Dev",
        "Node.js Performance Tips",
        "Git Workflows for Teams",
        "VS Code Tips & Tricks",
        "Landing Your First Developer Job",
        "Preparing for Technical Interviews",
        "Building a Personal Brand as a Developer",
        "Negotiating Your Developer Salary",
        "Networking for Tech Professionals",
        "Remote Work Best Practices",
        "Microservices vs Monoliths",
        "Event-Driven Architectures",
        "Progressive Enhancement in Web Apps",
        "Web Security Essentials",
        "Server-Side Rendering vs CSR"
    >>

MaxSmallCatalog == 3    \* besides the shipped catalog, its prefixes up to this length
MaxCalls == 95          \* getNextTopic calls per behaviour of the cursor alone
MaxBadIndex == 3        \* corrupt lastIndex values this far outside the catalog

Catalogs ==
    { SubSeq(ShippedTopics, 1, n) : n \in 1..MaxSmallCatalog } \cup { ShippedTopics }

(***************************************************************************)
(* topicTracker.js                                                         *)
(***************************************************************************)
\* Faulty variant of getLastIndex: the cursor starts at 0 when there is no file.
getLastIndexFromZero(file) ==
    IF file.kind = "missing" THEN Num(0)
    ELSE IF file.kind = "empty" THEN Num(0 - 1)
    ELSE IF file.kind = "unparseable" THEN Num(0 - 1)
    ELSE IF file.val # Undefined THEN file.val
    ELSE Num(0 - 1)

\* getLastIndex: -1 for a missing, empty or unparseable file, else
\* data.lastIndex unless it is undefined.
getLastIndex(file) ==
    IF file.kind = "missing" THEN Num(0 - 1)
    ELSE IF file.kind = "empty" THEN Num(0 - 1)
    ELSE IF file.kind = "unparseable" THEN Num(0 - 1)
    ELSE IF file.val # Undefined THEN file.val
    ELSE Num(0 - 1)

\* Faulty variant of saveLastIndex: the position is stored counting from 1.
saveLastIndexOneBased(index) ==
    IF IsNum(index) THEN JsonStringify(Num(index.v + 1)) ELSE JsonStringify(index)

\* saveLastIndex: the file content written by
\* fs.writeFileSync(TRACKER_FILE, JSON.stringify({ lastIndex: index })).
saveLastIndex(index) == JsonStringify(index)

\* x + 1 in JavaScript: null counts as 0, a string is concatenated with "1".
JsPlusOne(x) ==
    IF IsNum(x) THEN Num(x.v + 1)
    ELSE IF x.t = "null" THEN Num(1)
    ELSE IF x.t = "string" THEN Str
    ELSE NaN

\* Faulty variant of JsRemainder: the wrap-around comes one position late.
JsRemainderOffByOne(x, n) ==
    IF IsNum(x)
    THEN IF x.v >= 0 THEN Num(x.v % (n + 1)) ELSE Num(0 - ((0 - x.v) % (n + 1)))
    ELSE NaN

\* x % n in JavaScript, n > 0: the remainder has the sign of the dividend;
\* a non-numeric string gives NaN.
JsRemainder(x, n) ==
    IF IsNum(x)
    THEN IF x.v >= 0 THEN Num(x.v % n) ELSE Num(0 - ((0 - x.v) % n))
    ELSE NaN

\* (lastIndex + 1) % topics.length
nextIndexOf(lastIndex, catalog) == JsRemainder(JsPlusOne(lastIndex), Len(catalog))

\* catalog[index]: undefined unless index is one of 0 .. length - 1.
TopicAt(catalog, index) ==
    IF IsNum(index) /\ index.v >= 0 /\ index.v < Len(catalog)
    THEN [title |-> catalog[index.v + 1]]
    ELSE Undefined

\* getNextTopic: the value returned and the file left behind.
getNextTopicResult(file, catalog) == TopicAt(catalog, nextIndexOf(getLastIndex(file), catalog))

\* Faulty variant of getNextTopicFile: lastIndex + 1 is saved before it is wrapped.
getNextTopicFileNoWrap(file, catalog) == saveLastIndex(JsPlusOne(getLastIndex(file)))

getNextTopicFile(file, catalog) == saveLastIndex(nextIndexOf(getLastIndex(file), catalog))

CursorEntry(file, catalog) ==
    [before |-> file,
     nextIndex |-> nextIndexOf(getLastIndex(file), catalog),
     topic |-> getNextTopicResult(file, catalog),
     after |-> getNextTopicFile(file, catalog)]

\* One call of getNextTopic in a fresh process.
GetNextTopic ==
    /\ Len(cursorLog) < MaxCalls
    /\ topicTracker' = getNextTopicFile(topicTracker, topics)
    /\ cursorLog' = Append(cursorLog, CursorEntry(topicTracker, topics))
    /\ UNCHANGED <<gateVars, topics, pipelineLog, pipeVars, racers, cursorProc>>

(***************************************************************************)
(* fetchAndSavePost.js                                                     *)
(***************************************************************************)
\* The about text of each catalog entry, in the order of ShippedTopics.
ShippedAbouts ==
    <<
        "A comparison of Redux Toolkit, Zustand, and Context API for managing state in large-scale React applications.",
        "Understanding the differences, best use cases, and how to create responsive layouts efficiently.",
        "Exploring dynamic routes, nested layouts, and incremental static regeneration in Next.js.",
        "How to make web apps installable, offline-ready, and fast using service workers and caching strategies.",
        "Covering lazy loading, image optimization, caching, and Core Web Vitals for faster web apps.",
        "How to make web applications accessible to all users, including those with disabilities.",
        "A guide to continuous integration and delivery using GitHub Actions, GitLab CI, and Jenkins.",
        "Understanding containers, images, volumes, and building Dockerized applications.",
        "Introduction to pods, deployments, services, and scaling applications in Kubernetes clusters.",
        "Best practices with Prometheus, Grafana, and ELK stack for observability.",
        "Terraform vs Pulumi: managing cloud infrastructure declaratively and reproducibly.",
        "How to implement GitOps practices for continuous deployment and infrastructure management.",
        "How to create, deploy, and manage serverless functions in AWS.",
        "Deploying scalable web apps using Microsoft Azure App Services.",
        "Efficient storage strategies, bucket policies, and cost optimization in GCP.",
        "How to monitor, analyze, and reduce cloud spending across multiple providers.",
        "When and how to use multiple cloud providers for redundancy and scalability.",
        "How to secure cloud environments, manage identities, and protect data across providers.",
        "Basic ML concepts, supervised vs unsupervised learning, and practical Python examples.",
        "Integrating APIs like OpenAI or Hugging Face into web apps for smarter features.",
        "Containerization, model versioning, and serving strategies.",
        "Working with text, sentiment analysis, and tokenization in practical applications.",
        "Using TensorFlow.js or OpenCV for image recognition in browsers.",
        "Leveraging AI models to generate text, images, and other media for creative projects.",
        "How to structure your stack, iterate quickly, and validate your product with real users.",
        "Strategies for recurring payments, invoicing, and handling churn.",
        "Database, caching, and microservices patterns to handle growth.",
        "Key metrics like MRR, ARR, LTV, and how to track them.",
        "Designing frictionless flows that retain and engage users.",
        "How to secure SaaS applications, manage user identities, and protect sensitive data.",
        "Gradual migration, type safety, and best practices in large codebases.",
        "Using frameworks like Flask and Django to build scalable web applications.",
        "Event loop, async programming, and optimizing server-side JS applications.",
        "Branching strategies, pull requests, and commit conventions for collaborative development.",
        "Extensions, debugging techniques, and productivity hacks for developers.",
        "Resume tips, portfolio setup, and interview preparation strategies.",
        "Common questions, whiteboard problems, and coding challenge practice.",
        "Using GitHub, blogging, and social media to showcase your skills.",
        "Understanding market rates, benefits, and strategies to negotiate effectively.",
        "Finding mentors, attending meetups, and building valuable connections.",
        "Staying productive, managing time zones, and effective communication in remote teams.",
        "Pros, cons, and migration strategies for scalable application architecture.",
        "Building reactive systems with queues, pub/sub, and async messaging.",
        "Designing applications that work for all users, regardless of browser capabilities.",
        "Best practices for authentication, authorization, and protecting against common vulnerabilities.",
        "Benefits and trade-offs for SEO, performance, and user experience."
    >>

\* topic.about of the catalog entry with this title.
aboutOf(title) ==
    ShippedAbouts[CHOOSE i \in 1..Len(ShippedTopics) : ShippedTopics[i] = title]

\* Characters: a title is a JavaScript string; where savePost looks at its
\* characters it is the sequence of them.
UpperCase ==
    <<"A", "B", "C", "D", "E", "F", "G", "H", "I", "J", "K", "L", "M",
      "N", "O", "P", "Q", "R", "S", "T", "U", "V", "W", "X", "Y", "Z">>
LowerCase ==
    <<"a", "b", "c", "d", "e", "f", "g", "h", "i", "j", "k", "l", "m",
      "n", "o", "p", "q", "r", "s", "t", "u", "v", "w", "x", "y", "z">>
Digits == {"0", "1", "2", "3", "4", "5", "6", "7", "8", "9"}

\* Characters matched by \s and removed by trim().
WhiteSpace == {" ", "\t", "\n"}

Range(seq) == { seq[i] : i \in 1..Len(seq) }

\* The characters of each shipped title, in catalog order.
TitleCharacters ==
    <<
        <<"M", "o", "d", "e", "r", "n", " ", "S", "t", "a", "t", "e", " ", "M", "a", "n", "a", "g", "e", "m", "e", "n", "t", " ", "i", "n", " ", "R", "e", "a", "c", "t">>,
        <<"C", "S", "S", " ", "G", "r", "i", "d", " ", "v", "s", " ", "F", "l", "e", "x", "b", "o", "x">>,
        <<"N", "e", "x", "t", ".", "j", "s", " ", "R", "o", "u", "t", "i", "n", "g", " ", "D", "e", "e", "p", " ", "D", "i", "v", "e">>,
        <<"P", "r", "o", "g", "r", "e", "s", "s", "i", "v", "e", " ", "W", "e", "b", " ", "A", "p", "p", "s", " ", "(", "P", "W", "A", "s", ")">>,
        <<"O", "p", "t", "i", "m", "i", "z", "i", "n", "g", " ", "W", "e", "b", " ", "P", "e", "r", "f", "o", "r", "m", "a", "n", "c", "e">>,
        <<"W", "e", "b", " ", "A", "c", "c", "e", "s", "s", "i", "b", "i", "l", "i", "t", "y", " ", "(", "a", "1", "1", "y", ")", " ", "B", "e", "s", "t", " ", "P", "r", "a", "c", "t", "i", "c", "e", "s">>,
        <<"C", "I", "/", "C", "D", " ", "P", "i", "p", "e", "l", "i", "n", "e", "s", " ", "E", "x", "p", "l", "a", "i", "n", "e", "d">>,
        <<"D", "o", "c", "k", "e", "r", " ", "E", "s", "s", "e", "n", "t", "i", "a", "l", "s", " ", "f", "o", "r", " ", "D", "e", "v", "e", "l", "o", "p", "e", "r", "s">>,
        <<"K", "u", "b", "e", "r", "n", "e", "t", "e", "s", " ", "1", "0", "1">>,
        <<"M", "o", "n", "i", "t", "o", "r", "i", "n", "g", " ", "&", " ", "L", "o", "g", "g", "i", "n", "g", " ", "i", "n", " ", "D", "e", "v", "O", "p", "s">>,
        <<"I", "n", "f", "r", "a", "s", "t", "r", "u", "c", "t", "u", "r", "e", " ", "a", "s", " ", "C", "o", "d", "e", " ", "(", "I", "a", "C", ")">>,
        <<"G", "i", "t", "O", "p", "s", " ", "P", "r", "i", "n", "c", "i", "p", "l", "e", "s">>,
        <<"A", "W", "S", " ", "L", "a", "m", "b", "d", "a", " ", "S", "e", "r", "v", "e", "r", "l", "e", "s", "s", " ", "F", "u", "n", "c", "t", "i", "o", "n", "s">>,
        <<"A", "z", "u", "r", "e", " ", "A", "p", "p", " ", "S", "e", "r", "v", "i", "c", "e", "s", " ", "E", "x", "p", "l", "a", "i", "n", "e", "d">>,
        <<"G", "o", "o", "g", "l", "e", " ", "C", "l", "o", "u", "d", " ", "S", "t", "o", "r", "a", "g", "e", " ", "B", "e", "s", "t", " ", "P", "r", "a", "c", "t", "i", "c", "e", "s">>,
        <<"C", "l", "o", "u", "d", " ", "C", "o", "s", "t", " ", "M", "a", "n", "a", "g", "e", "m", "e", "n", "t">>,
        <<"M", "u", "l", "t", "i", "-", "C", "l", "o", "u", "d", " ", "S", "t", "r", "a", "t", "e", "g", "i", "e", "s">>,
        <<"C", "l", "o", "u", "d", " ", "S", "e", "c", "u", "r", "i", "t", "y", " ", "B", "e", "s", "t", " ", "P", "r", "a", "c", "t", "i", "c", "e", "s">>,
        <<"I", "n", "t", "r", "o", "d", "u", "c", "t", "i", "o", "n", " ", "t", "o", " ", "M", "a", "c", "h", "i", "n", "e", " ", "L", "e", "a", "r", "n", "i", "n", "g", " ", "f", "o", "r", " ", "D", "e", "v", "e", "l", "o", "p", "e", "r", "s">>,
        <<"U", "s", "i", "n", "g", " ", "A", "I", " ", "i", "n", " ", "W", "e", "b", " ", "A", "p", "p", "l", "i", "c", "a", "t", "i", "o", "n", "s">>,
        <<"D", "e", "p", "l", "o", "y", "i", "n", "g", " ", "M", "L", " ", "M", "o", "d", "e", "l", "s", " ", "t", "o", " ", "P", "r", "o", "d", "u", "c", "t", "i", "o", "n">>,
        <<"N", "L", "P", " ", "B", "a", "s", "i", "c", "s", " ", "f", "o", "r", " ", "D", "e", "v", "e", "l", "o", "p", "e", "r", "s">>,
        <<"C", "o", "m", "p", "u", "t", "e", "r", " ", "V", "i", "s", "i", "o", "n", " ", "i", "n", " ", "W", "e", "b", " ", "A", "p", "p", "s">>,
        <<"G", "e", "n", "e", "r", "a", "t", "i", "v", "e", " ", "A", "I", " ", "f", "o", "r", " ", "C", "o", "n", "t", "e", "n", "t", " ", "C", "r", "e", "a", "t", "i", "o", "n">>,
        <<"B", "u", "i", "l", "d", "i", "n", "g", " ", "a", " ", "S", "a", "a", "S", " ", "M", "V", "P">>,
        <<"S", "u", "b", "s", "c", "r", "i", "p", "t", "i", "o", "n", " ", "B", "i", "l", "l", "i", "n", "g", " ", "B", "e", "s", "t", " ", "P", "r", "a", "c", "t", "i", "c", "e", "s">>,
        <<"S", "c", "a", "l", "i", "n", "g", " ", "S", "a", "a", "S", " ", "A", "p", "p", "l", "i", "c", "a", "t", "i", "o", "n", "s">>,
        <<"S", "a", "a", "S", " ", "A", "n", "a", "l", "y", "t", "i", "c", "s", " ", "a", "n", "d", " ", "M", "e", "t", "r", "i", "c", "s">>,
        <<"U", "s", "e", "r", " ", "O", "n", "b", "o", "a", "r", "d", "i", "n", "g", " ", "S", "t", "r", "a", "t", "e", "g", "i", "e", "s">>,
        <<"S", "a", "a", "S", " ", "S", "e", "c", "u", "r", "i", "t", "y", " ", "B", "e", "s", "t", " ", "P", "r", "a", "c", "t", "i", "c", "e", "s">>,
        <<"T", "y", "p", "e", "S", "c", "r", "i", "p", "t", " ", "f", "o", "r", " ", "J", "a", "v", "a", "S", "c", "r", "i", "p", "t", " ", "D", "e", "v", "e", "l", "o", "p", "e", "r", "s">>,
        <<"P", "y", "t", "h", "o", "n", " ", "f", "o", "r", " ", "W", "e", "b", " ", "D", "e", "v">>,
        <<"N", "o", "d", "e", ".", "j", "s", " ", "P", "e", "r", "f", "o", "r", "m", "a", "n", "c", "e", " ", "T", "i", "p", "s">>,
        <<"G", "i", "t", " ", "W", "o", "r", "k", "f", "l", "o", "w", "s", " ", "f", "o", "r", " ", "T", "e", "a", "m", "s">>,
        <<"V", "S", " ", "C", "o", "d", "e", " ", "T", "i", "p", "s", " ", "&", " ", "T", "r", "i", "c", "k", "s">>,
        <<"L", "a", "n", "d", "i", "n", "g", " ", "Y", "o", "u", "r", " ", "F", "i", "r", "s", "t", " ", "D", "e", "v", "e", "l", "o", "p", "e", "r", " ", "J", "o", "b">>,
        <<"P", "r", "e", "p", "a", "r", "i", "n", "g", " ", "f", "o", "r", " ", "T", "e", "c", "h", "n", "i", "c", "a", "l", " ", "I", "n", "t", "e", "r", "v", "i", "e", "w", "s">>,
        <<"B", "u", "i", "l", "d", "i", "n", "g", " ", "a", " ", "P", "e", "r", "s", "o", "n", "a", "l", " ", "B", "r", "a", "n", "d", " ", "a", "s", " ", "a", " ", "D", "e", "v", "e", "l", "o", "p", "e", "r">>,
        <<"N", "e", "g", "o", "t", "i", "a", "t", "i", "n", "g", " ", "Y", "o", "u", "r", " ", "D", "e", "v", "e", "l", "o", "p", "e", "r", " ", "S", "a", "l", "a", "r", "y">>,
        <<"N", "e", "t", "w", "o", "r", "k", "i", "n", "g", " ", "f", "o", "r", " ", "T", "e", "c", "h", " ", "P", "r", "o", "f", "e", "s", "s", "i", "o", "n", "a", "l", "s">>,
        <<"R", "e", "m", "o", "t", "e", " ", "W", "o", "r", "k", " ", "B", "e", "s", "t", " ", "P", "r", "a", "c", "t", "i", "c", "e", "s">>,
        <<"M", "i", "c", "r", "o", "s", "e", "r", "v", "i", "c", "e", "s", " ", "v", "s", " ", "M", "o", "n", "o", "l", "i", "t", "h", "s">>,
        <<"E", "v", "e", "n", "t", "-", "D", "r", "i", "v", "e", "n", " ", "A", "r", "c", "h", "i", "t", "e", "c", "t", "u", "r", "e", "s">>,
        <<"P", "r", "o", "g", "r", "e", "s", "s", "i", "v", "e", " ", "E", "n", "h", "a", "n", "c", "e", "m", "e", "n", "t", " ", "i", "n", " ", "W", "e", "b", " ", "A", "p", "p", "s">>,
        <<"W", "e", "b", " ", "S", "e", "c", "u", "r", "i", "t", "y", " ", "E", "s", "s", "e", "n", "t", "i", "a", "l", "s">>,
        <<"S", "e", "r", "v", "e", "r", "-", "S", "i", "d", "e", " ", "R", "e", "n", "d", "e", "r", "i", "n", "g", " ", "v", "s", " ", "C", "S", "R">>
    >>

\* title.toLowerCase()
toLowerCase(chars) ==
    [i \in 1..Len(chars) |->
        IF chars[i] \in Range(UpperCase)
        THEN LowerCase[CHOOSE k \in 1..Len(UpperCase) : UpperCase[k] = chars[i]]
        ELSE chars[i]]

\* Faulty variant of removeOthers: the hyphen is kept as well.
removeOthersButHyphen(chars) ==
    LET Kept(c) == c \in Range(LowerCase) \cup Digits \cup WhiteSpace \cup {"-"}
    IN  SelectSeq(chars, Kept)

\* .replace(/[^a-z0-9\s]/g, "")
removeOthers(chars) ==
    LET Kept(c) == c \in Range(LowerCase) \cup Digits \cup WhiteSpace
    IN  SelectSeq(chars, Kept)

RECURSIVE trimStart(_)
trimStart(chars) ==
    IF chars = <<>> THEN <<>>
    ELSE IF Head(chars) \in WhiteSpace THEN trimStart(Tail(chars))
    ELSE chars

RECURSIVE trimEnd(_)
trimEnd(chars) ==
    IF chars = <<>> THEN <<>>
    ELSE IF chars[Len(chars)] \in WhiteSpace THEN trimEnd(SubSeq(chars, 1, Len(chars) - 1))
    ELSE chars

\* .trim()
trim(chars) == trimEnd(trimStart(chars))

\* Faulty variant of replaceWhiteSpace: every white space character becomes
\* a hyphen of its own (/\s/g instead of /\s+/g).
RECURSIVE replaceEachWhiteSpace(_)
replaceEachWhiteSpace(chars) ==
    IF chars = <<>> THEN <<>>
    ELSE IF Head(chars) \in WhiteSpace THEN <<"-">> \o replaceEachWhiteSpace(Tail(chars))
    ELSE <<Head(chars)>> \o replaceEachWhiteSpace(Tail(chars))

\* .replace(/\s+/g, "-"): each maximal run of white space becomes one hyphen.
RECURSIVE replaceWhiteSpace(_)
replaceWhiteSpace(chars) ==
    IF chars = <<>> THEN <<>>
    ELSE IF Head(chars) \in WhiteSpace THEN <<"-">> \o replaceWhiteSpace(trimStart(chars))
    ELSE <<Head(chars)>> \o replaceWhiteSpace(Tail(chars))

\* Faulty variant of slugify: the slug is cut after its first word.
slugifyFirstWord(chars) ==
    LET words == trim(removeOthers(toLowerCase(chars)))
        first == IF \E i \in 1..Len(words) : words[i] \in WhiteSpace
                 THEN (CHOOSE i \in 1..Len(words) :
                          /\ words[i] \in WhiteSpace
                          /\ \A j \in 1..(i - 1) : words[j] \notin WhiteSpace) - 1
                 ELSE Len(words)
    IN  SubSeq(words, 1, first)

\* The slug of savePost, on the characters of the title.
slugify(chars) == replaceWhiteSpace(trim(removeOthers(toLowerCase(chars))))

RECURSIVE SlugsOf(_)
SlugsOf(titles) ==
    IF titles = <<>> THEN <<>> ELSE <<slugify(Head(titles))>> \o SlugsOf(Tail(titles))

\* savePost's slug of each shipped title, in catalog order.
ShippedSlugs == SlugsOf(TitleCharacters)

\* The slug of a shipped title.
slug(title) ==
    ShippedSlugs[CHOOSE i \in 1..Len(ShippedTopics) : ShippedTopics[i] = title]

\* A path below the working directory: folder, file name and extension.
Path(folder, name, extension) == [folder |-> folder, name |-> name, extension |-> extension]

\* path.join(process.cwd(), "src", "content", "blog")
BlogFolder == Path(<<"src", "content">>, <<"b", "l", "o", "g">>, "")

\* path.join(folder, `${slug}.md`)
PostPath(name) == Path(<<"src", "content", "blog">>, name, "md")

\* The file savePost writes for a shipped title.
savePostPath(title) == PostPath(slug(title))

\* The tracker files, below the directory of the two utility modules.
GateTrackerPath ==
    Path(<<"src", "utils", "data">>,
         <<"w", "o", "r", "k", "f", "l", "o", "w", "T", "r", "a", "c", "k", "e", "r">>, "json")
CursorTrackerPath ==
    Path(<<"src", "utils", "data">>,
         <<"t", "o", "p", "i", "c", "T", "r", "a", "c", "k", "e", "r">>, "json")

\* generateFrontmatter and the text after it (pubDate is left out).
Post(title, description, content) ==
    [title |-> title, description |-> description, content |-> content]

\* A file of the blog folder whose write did not complete.
EmptyPost == [title |-> "", description |-> "", content |-> Undefined]

\* The entry of a folder in the file system.
Folder == [kind |-> "folder"]

\* fs.writeFileSync(filePath, text) on the blog folder.
WriteFile(files, path, text) ==
    [f \in DOMAIN files \cup {path} |-> IF f = path THEN text ELSE files[f]]

\* if (!fs.existsSync(folder)) fs.mkdirSync(folder, { recursive: true })
mkdirSync(files) ==
    IF BlogFolder \in DOMAIN files THEN files ELSE WriteFile(files, BlogFolder, Folder)

\* Faulty variant of writePost: the folder is taken to exist.
writePostNoMkdir(files, name, text) == WriteFile(files, PostPath(name), text)

\* savePost after the slug is known: the folder is made if it is absent and
\* the text is written to <slug>.md in it.
writePost(files, name, text) == WriteFile(mkdirSync(files), PostPath(name), text)

\* savePost: the file system below src/content after it returned.
savePost(files, title, description, content) ==
    writePost(files, slug(title), Post(title, description, content))

\* The file system below src/content before the blog folder exists.
NoPosts == [f \in {} |-> EmptyPost]

\* fetchPost throws before any request when the topic is missing or lacks a
\* title or an about text; otherwise it returns the generated text or the
\* fallback text.
\* The empty string, and what an if statement takes for true.
EmptyString == [t |-> "emptyString", v |-> 0]
Truthy(x) == x.t \notin {"undefined", "null", "NaN", "emptyString"} /\ x # Num(0)

\* A topic is undefined or null, an entry of the catalog (its about text is
\* looked up by its title), or an object given by the values of its title
\* and about properties.
IsPrimitive(topic) == DOMAIN topic = {"t", "v"}
IsCatalogEntry(topic) == DOMAIN topic = {"title"}

\* Faulty variant of fetchPostThrows: only a missing topic is rejected.
fetchPostThrowsOnMissing(topic) == IsPrimitive(topic)

\* if (!topic || !topic.title || !topic.about)
fetchPostThrows(topic) ==
    IF IsPrimitive(topic) THEN TRUE
    ELSE IF IsCatalogEntry(topic) THEN topic.title = "" \/ aboutOf(topic.title) = ""
    ELSE ~Truthy(topic.title) \/ ~Truthy(topic.about)

\* What the request to the API comes to: a text, a content that is present
\* but not a string (content.trim is not a function), no content, a response
\* that is not ok, or a rejected fetch.
Responses == {"content", "notAString", "noContent", "errorStatus", "networkError"}

\* The text fetchPost returned for a topic, when the response is not known.
Returned(topic) == [kind |-> "returned", title |-> topic.title]

\* The generated text and the fallback text of the catch block.
Generated(topic) == [kind |-> "generated", title |-> topic.title]
Fallback(topic, response) ==
    [kind |-> "fallback", title |-> topic.title, about |-> aboutOf(topic.title),
     error |-> response]

\* Faulty variant of fetchPost: the catch block throws the error again.
fetchPostRethrows(topic, response) ==
    IF fetchPostThrows(topic) \/ response # "content"
    THEN [threw |-> TRUE, content |-> Undefined]
    ELSE [threw |-> FALSE, content |-> Generated(topic)]

\* fetchPost(topic): whether it threw, and the text it returned.
fetchPost(topic, response) ==
    IF fetchPostThrows(topic) THEN [threw |-> TRUE, content |-> Undefined]
    ELSE IF response = "content" THEN [threw |-> FALSE, content |-> Generated(topic)]
    ELSE [threw |-> FALSE, content |-> Fallback(topic, response)]

\* How a run can end: "saved" after savePost returned, "error" when the catch
\* block logged an exception of fetchPost or savePost, "crashed" when the
\* process was killed while it awaited fetchPost.  In each of them
\* getNextTopic has already returned.
Outcomes(topic) ==
    IF fetchPostThrows(topic) THEN {"error", "crashed"}
    ELSE {"saved", "error", "crashed"}

\* The scheduled job runs the gate script first and the pipeline script only
\* when the gate exited with status 0, once per grant.
PipelinePermitted ==
    /\ Len(gateLog) > 0
    /\ gateLog[Len(gateLog)].result = "true"
    /\ \A r \in 1..Len(pipelineLog) : pipelineLog[r].checks # Len(gateLog)

\* One run of the pipeline script; checks is the number of the gate check that
\* let it run.  A run that ends in "error" or "crashed" after a topic was
\* returned is taken to have stopped before savePost opened its file.
FetchAndSavePost(outcome) ==
    /\ PipelinePermitted
    /\ outcome \in Outcomes(getNextTopicResult(topicTracker, topics))
    /\ blog' = IF outcome = "saved"
               THEN LET topic == getNextTopicResult(topicTracker, topics)
                    IN  savePost(blog, topic.title, aboutOf(topic.title), Returned(topic))
               ELSE blog
    /\ topicTracker' = getNextTopicFile(topicTracker, topics)
    /\ cursorLog' = Append(cursorLog, CursorEntry(topicTracker, topics))
    /\ pipelineLog' = Append(pipelineLog,
                        [topic |-> getNextTopicResult(topicTracker, topics),
                         outcome |-> outcome,
                         checks |-> Len(gateLog)])
    /\ UNCHANGED <<gateVars, topics, cursorProc, pipeProc, racers>>

(***************************************************************************)
(* Initial states: the tracker files are whatever an earlier run or an     *)
(* operator left behind.                                                   *)
(***************************************************************************)
\* A numeric lastRan is 0, negative, or an instant of the first two cooldown
\* windows (later ones are written by the gate itself); the first check may
\* come before or after it.
WorkflowTrackerFiles ==
    {Missing, Empty, Unparseable, Json(Undefined), Json(Null), Json(Str)}
        \cup { Json(Num(t)) :
                t \in { u \in Times : u <= HOURS_36_IN_MS + MaxOffset } \cup {0, 0 - 1} }

TopicTrackerFiles(catalog) ==
    {Missing, Empty, Unparseable, Json(Undefined), Json(Null), Json(Str)}
        \cup { Json(Num(i)) : i \in (0 - 1 - MaxBadIndex)..(Len(catalog) - 1 + MaxBadIndex) }

\* No gate script and no getNextTopic call is under way.
GateIdle ==
    [pc |-> "idle", lastRan |-> Num(0), now |-> 0, before |-> Missing,
     result |-> "none", io |-> "none"]

CursorIdle == [pc |-> "idle", lastIndex |-> Num(0 - 1), before |-> Missing]

\* No pipeline script is under way, and no two scripts run side by side.
PipeIdle ==
    [pc |-> "idle", lastIndex |-> Num(0 - 1), topic |-> Undefined, content |-> Undefined,
     threw |-> "none", cursorBefore |-> Missing, cursorSaved |-> Missing,
     blogBefore |-> NoPosts, calls |-> <<>>, logs |-> <<>>]

NoRacers == <<>>

\* The scheduled workflow: gate checks and pipeline runs over the shipped
\* catalog, from any timestamp record and no cursor record.
Init ==
    /\ workflowTracker \in WorkflowTrackerFiles
    /\ clock = 0
    /\ gateLog = <<>>
    /\ topics = ShippedTopics
    /\ topicTracker = Missing
    /\ cursorLog = <<>>
    /\ pipelineLog = <<>>
    /\ gateProc = GateIdle
    /\ cursorProc = CursorIdle
    /\ blog = NoPosts
    /\ pipeProc = PipeIdle
    /\ racers = NoRacers

Next ==
    \/ \E now \in Times : ShouldRun(now)
    \/ \E outcome \in {"saved", "error", "crashed"} : FetchAndSavePost(outcome)

Spec == Init /\ [][Next]_vars

\* The cursor alone: repeated getNextTopic calls over a catalog, from any
\* cursor record.
InitCursor ==
    /\ workflowTracker = Missing
    /\ clock = 0
    /\ gateLog = <<>>
    /\ topics \in Catalogs
    /\ topicTracker \in TopicTrackerFiles(topics)
    /\ cursorLog = <<>>
    /\ pipelineLog = <<>>
    /\ gateProc = GateIdle
    /\ cursorProc = CursorIdle
    /\ blog = NoPosts
    /\ pipeProc = PipeIdle
    /\ racers = NoRacers

NextCursor == GetNextTopic

SpecCursor == InitCursor /\ [][NextCursor]_vars

(***************************************************************************)
(* Properties of the scheduler gate, checked under Spec.                   *)
(***************************************************************************)
GateChecks == 1..Len(gateLog)

\* The record held a number T as lastRan before gate check i.
HeldLastRan(i, T) == gateLog[i].before = Json(Num(T))

Denied(i) == gateLog[i].result = "false" /\ gateLog[i].after = gateLog[i].before

Granted(i) == gateLog[i].result = "true" /\ gateLog[i].after = Json(Num(gateLog[i].now))

\* The numbers a record can hold as lastRan in the model.
LastRanValues == Times \cup {0, 0 - 1}

\* The number T that the record held as lastRan before gate check i, as a set
\* of one element, or no element when the record held no number.
HeldBefore(i) ==
    IF gateLog[i].before.kind = "json" /\ IsNum(gateLog[i].before.val)
    THEN {gateLog[i].before.val.v}
    ELSE {}

\* C2, as stated: whatever number T the record holds as lastRan, a check at
\* T + 36h - 1ms is denied and leaves the record alone, and a check at or
\* after T + 36h is granted and records its own time.
C2_CooldownForEveryLastRan ==
    \A i \in GateChecks : \A T \in HeldBefore(i) :
        HeldLastRan(i, T) =>
            /\ gateLog[i].now = T + HOURS_36_IN_MS - 1 => Denied(i)
            /\ gateLog[i].now >= T + HOURS_36_IN_MS => Granted(i)

\* C2, amended: the same for every T other than 0, the value that stands for
\* "never ran".
C2_CooldownEnforcement ==
    \A i \in GateChecks : \A T \in HeldBefore(i) \ {0} :
        HeldLastRan(i, T) =>
            /\ gateLog[i].now = T + HOURS_36_IN_MS - 1 => Denied(i)
            /\ gateLog[i].now >= T + HOURS_36_IN_MS => Granted(i)

\* C2 witness: over one record value T, a check one millisecond before the
\* cooldown ended was denied and the following check, at the end of the
\* cooldown or later, was granted.
C2_Witness ==
    \E i \in GateChecks : \E T \in LastRanValues \ {0} :
        /\ i + 1 \in GateChecks
        /\ HeldLastRan(i, T)
        /\ gateLog[i].now = T + HOURS_36_IN_MS - 1
        /\ Denied(i)
        /\ HeldLastRan(i + 1, T)
        /\ gateLog[i + 1].now >= T + HOURS_36_IN_MS
        /\ Granted(i + 1)

\* C3: two gate checks that both returned true are at least 36 hours apart,
\* whatever happened to the pipeline runs in between.
C3_NoDoubleRunWithinCooldown ==
    \A i \in GateChecks : \A j \in GateChecks :
        (i < j /\ gateLog[i].result = "true" /\ gateLog[j].result = "true")
            => gateLog[j].now - gateLog[i].now >= HOURS_36_IN_MS

\* C3 witness: check i was granted, the pipeline run it permitted failed or
\* crashed, and a later check inside the cooldown was denied.
C3_Witness ==
    \E i \in GateChecks : \E j \in GateChecks : \E r \in 1..Len(pipelineLog) :
        /\ i < j
        /\ gateLog[i].result = "true"
        /\ pipelineLog[r].checks = i
        /\ pipelineLog[r].outcome \in {"error", "crashed"}
        /\ gateLog[j].now - gateLog[i].now < HOURS_36_IN_MS
        /\ gateLog[j].result = "false"

\* C7: a check that finds no record, or a record with lastRan 0, returns true
\* and records its own time, at whatever time it is made.
C7_FirstRunGranted ==
    \A i \in GateChecks :
        gateLog[i].before \in {Missing, Json(Num(0))} => Granted(i)

\* C7 witness: a check made less than 36 hours after the epoch found
\* lastRan 0 and was granted; another behaviour does so with no record.
C7_Witness ==
    \E i \in GateChecks :
        /\ gateLog[i].before \in {Missing, Json(Num(0))}
        /\ gateLog[i].now < HOURS_36_IN_MS
        /\ Granted(i)
        /\ workflowTracker = Json(Num(gateLog[i].now))

InWindow(i, T) == gateLog[i].now >= T /\ gateLog[i].now < T + HOURS_36_IN_MS

\* C8, as stated: for whatever number T the record holds, two consecutive
\* checks inside [T, T + 36h) are both denied and the record still holds T.
C8_DenialIdempotentForEveryLastRan ==
    \A i \in GateChecks : \A T \in HeldBefore(i) :
        (i + 1 \in GateChecks /\ HeldLastRan(i, T) /\ InWindow(i, T) /\ InWindow(i + 1, T))
            => /\ Denied(i)
               /\ Denied(i + 1)
               /\ gateLog[i + 1].after = Json(Num(T))

\* C8, amended: the same for every T other than 0.
C8_DenialIdempotent ==
    \A i \in GateChecks : \A T \in HeldBefore(i) \ {0} :
        (i + 1 \in GateChecks /\ HeldLastRan(i, T) /\ InWindow(i, T) /\ InWindow(i + 1, T))
            => /\ Denied(i)
               /\ Denied(i + 1)
               /\ gateLog[i + 1].after = Json(Num(T))

\* C8 witness: two consecutive checks at different times inside the window of
\* the same record were denied and the record is what it was.
C8_Witness ==
    \E i \in GateChecks : \E T \in LastRanValues \ {0} :
        /\ i + 1 = Len(gateLog)
        /\ HeldLastRan(i, T)
        /\ InWindow(i, T)
        /\ InWindow(i + 1, T)
        /\ gateLog[i].now < gateLog[i + 1].now
        /\ Denied(i)
        /\ Denied(i + 1)
        /\ workflowTracker = Json(Num(T))

\* A step is a gate check when it appends to gateLog.
GateCheckStep == Len(gateLog') = Len(gateLog) + 1

\* C9: the timestamp record changes only in a gate check that returns true;
\* a check that returns false, and every other step, leaves it as it was.
C9_WrittenOnlyOnGrant ==
    [][/\ workflowTracker' # workflowTracker =>
            (GateCheckStep /\ gateLog'[Len(gateLog')].result = "true")
       /\ (GateCheckStep /\ gateLog'[Len(gateLog')].result = "false") =>
            workflowTracker' = workflowTracker]_vars

\* C9 witness: the last check was denied over an existing record, which is
\* still in place.
C9_Witness ==
    /\ Len(gateLog) > 0
    /\ gateLog[Len(gateLog)].result = "false"
    /\ gateLog[Len(gateLog)].before.kind = "json"
    /\ workflowTracker = gateLog[Len(gateLog)].before

\* lastRan as the gate reads it from a record.
LastRanOf(file) == getLastRan(file)

\* C10: with a clock that does not run backwards, every change of the record
\* replaces a numeric lastRan by the now of the granting check, and that now
\* is not less than the lastRan it replaces.
C10_LastRanMonotonic ==
    [][workflowTracker' # workflowTracker =>
            /\ IsNum(LastRanOf(workflowTracker))
            /\ workflowTracker' = Json(Num(clock'))
            /\ clock' >= LastRanOf(workflowTracker).v
            /\ gateLog'[Len(gateLog')].now = clock']_vars

\* C10 witness: the record was overwritten twice, each time by a later time.
C10_Witness ==
    \E i \in GateChecks : \E j \in GateChecks :
        /\ i < j
        /\ Granted(i)
        /\ Granted(j)
        /\ gateLog[i].before.kind = "json"
        /\ IsNum(gateLog[i].before.val)
        /\ gateLog[i].before.val.v > 0
        /\ gateLog[i].before.val.v < gateLog[i].now
        /\ gateLog[i].now < gateLog[j].now

(***************************************************************************)
(* Properties of the topic cursor, checked under SpecCursor.               *)
(***************************************************************************)
CursorCalls == 1..Len(cursorLog)

\* catalog[i] of the spec, for i in 0 .. N - 1.
Entry(i) == [title |-> topics[i + 1]]

Min(a, b) == IF a <= b THEN a ELSE b

FromNoRecord == Len(cursorLog) > 0 /\ cursorLog[1].before = Missing

\* C1: starting with no cursor record, call k of the first N calls returns
\* catalog[k - 1], and the N values returned are N different entries.
C1_RoundRobinTotality ==
    FromNoRecord =>
        /\ \A k \in 1..Min(Len(cursorLog), Len(topics)) : cursorLog[k].topic = Entry(k - 1)
        /\ Len(cursorLog) = Len(topics) =>
                Cardinality({ cursorLog[k].topic : k \in 1..Len(topics) }) = Len(topics)

\* C1 witness: the shipped catalog has been handed out once, entry by entry.
C1_Witness ==
    /\ FromNoRecord
    /\ topics = ShippedTopics
    /\ Len(cursorLog) = Len(topics)
    /\ cursorLog[1].topic = Entry(0)
    /\ cursorLog[Len(topics)].topic = Entry(Len(topics) - 1)

\* The record is one of those C4 names: unparseable, or a number below -1 or
\* at least N as lastIndex.
CorruptCursor(file) ==
    \/ file = Unparseable
    \/ /\ file.kind = "json"
       /\ IsNum(file.val)
       /\ (file.val.v < 0 - 1 \/ file.val.v >= Len(topics))

\* C4: a call that finds such a record returns catalog[0].
C4_CorruptionRecovery ==
    \A k \in CursorCalls :
        CorruptCursor(cursorLog[k].before) => cursorLog[k].topic = Entry(0)

\* C5: when a call returned catalog[i], the next call, which reads the record
\* that call left in the file, returns catalog[(i + 1) mod N].
C5_PersistenceRoundTrip ==
    \A k \in CursorCalls :
        (k + 1 \in CursorCalls /\ cursorLog[k].topic # Undefined) =>
            /\ cursorLog[k + 1].before = cursorLog[k].after
            /\ cursorLog[k + 1].topic = Entry((cursorLog[k].nextIndex.v + 1) % Len(topics))

\* C5 witness: the call after the one that returned the last entry of the
\* shipped catalog returned the first entry.
C5_Witness ==
    \E k \in CursorCalls :
        /\ k + 1 \in CursorCalls
        /\ topics = ShippedTopics
        /\ cursorLog[k].topic = Entry(Len(topics) - 1)
        /\ cursorLog[k + 1].before = Json(Num(Len(topics) - 1))
        /\ cursorLog[k + 1].topic = Entry(0)

\* C6: N calls after the start with no record the next index is 0 again; and
\* a topic returned by call k is returned by call k + N and by no call in
\* between.  (Stated for the latest call: every earlier call was the latest
\* one in an earlier state.)
C6_Periodicity ==
    /\ (FromNoRecord /\ Len(cursorLog) = Len(topics)) =>
            nextIndexOf(getLastIndex(topicTracker), topics) = Num(0)
    /\ (Len(cursorLog) > Len(topics) /\ cursorLog[Len(cursorLog) - Len(topics)].topic # Undefined) =>
            /\ cursorLog[Len(cursorLog)].topic = cursorLog[Len(cursorLog) - Len(topics)].topic
            /\ \A j \in (Len(cursorLog) - Len(topics) + 1)..(Len(cursorLog) - 1) :
                    cursorLog[j].topic # cursorLog[Len(cursorLog) - Len(topics)].topic

\* C6 witness: two full periods of the shipped catalog from no record.
C6_Witness ==
    /\ FromNoRecord
    /\ topics = ShippedTopics
    /\ Len(cursorLog) = 2 * Len(topics)
    /\ cursorLog[Len(topics)].topic = Entry(Len(topics) - 1)
    /\ cursorLog[2 * Len(topics)].topic = cursorLog[Len(topics)].topic
    /\ nextIndexOf(getLastIndex(topicTracker), topics) = Num(0)

\* The call returned an entry of the catalog and left its index in the file.
ValidAdvance(k) ==
    /\ cursorLog[k].topic # Undefined
    /\ IsNum(cursorLog[k].nextIndex)
    /\ cursorLog[k].nextIndex.v \in 0..(Len(topics) - 1)
    /\ cursorLog[k].topic = Entry(cursorLog[k].nextIndex.v)
    /\ cursorLog[k].after = Json(Num(cursorLog[k].nextIndex.v))

\* C11: whatever record a call of getNextTopic finds, it returns an entry of
\* the catalog and leaves a lastIndex in 0 .. N - 1 in the file.
C11_CursorAlwaysInRange ==
    \A k \in CursorCalls : ValidAdvance(k)

\* C12: a gate check that finds the record missing, empty or unparseable
\* raises nothing, returns true and records its own time.
C12_UnreadableRecordIsNeverRan ==
    \A i \in GateChecks :
        gateLog[i].before \in {Missing, Empty, Unparseable} => Granted(i)

\* C12 witness: the latest check found an unparseable (another behaviour: an
\* empty) record and was granted; the record now holds the time of the check.
C12_Witness ==
    /\ Len(gateLog) > 0
    /\ gateLog[Len(gateLog)].before \in {Empty, Unparseable}
    /\ Granted(Len(gateLog))
    /\ workflowTracker = Json(Num(clock))

\* C13: a gate check that finds a record without lastRan, or with a string as
\* lastRan, returns true and records its own time.
C13_InvalidRecordIsNeverRan ==
    \A i \in GateChecks :
        gateLog[i].before \in {Json(Undefined), Json(Str)} => Granted(i)

\* C14: over a catalog of more than one entry every call changes the record,
\* and two consecutive calls return two different entries of the catalog.
C14_NotIdempotent ==
    Len(topics) > 1 =>
        \A k \in CursorCalls :
            /\ cursorLog[k].after # cursorLog[k].before
            /\ k + 1 \in CursorCalls => cursorLog[k].topic # cursorLog[k + 1].topic

\* C15: a call that returns an entry leaves exactly the index of that entry in
\* the file; over the three entry catalog and from no record the first four
\* calls return entries 0, 1, 2, 0 and leave lastIndex 0, 1, 2, 0.
C15_RecordHoldsReturnedIndex ==
    /\ \A k \in CursorCalls : cursorLog[k].topic # Undefined => ValidAdvance(k)
    /\ Len(cursorLog) > 0 => topicTracker = cursorLog[Len(cursorLog)].after
    /\ (FromNoRecord /\ Len(topics) = 3) =>
            \A k \in 1..Min(Len(cursorLog), 4) :
                /\ cursorLog[k].topic = Entry((k - 1) % 3)
                /\ cursorLog[k].after = Json(Num((k - 1) % 3))

\* C15 witness: the fourth call over the three entry catalog has returned the
\* first entry again and the file holds lastIndex 0.
C15_Witness ==
    /\ FromNoRecord
    /\ Len(topics) = 3
    /\ Len(cursorLog) = 4
    /\ cursorLog[3].topic = [title |-> "Next.js Routing Deep Dive"]
    /\ cursorLog[3].after = Json(Num(2))
    /\ cursorLog[4].topic = [title |-> "Modern State Management in React"]
    /\ topicTracker = Json(Num(0))

\* No check between the first one and check j was granted.
OnlyDenialsBetween(j) == \A m \in 2..(j - 1) : gateLog[m].result = "false"

\* C16: with no record the first check is granted and records its time; as
\* long as nothing else was granted, a later check less than 36 hours after
\* the first is denied and a check 36 hours or more after it is granted.
C16_GateExample ==
    (Len(gateLog) > 0 /\ gateLog[1].before = Missing) =>
        /\ Granted(1)
        /\ \A j \in 2..Len(gateLog) :
              OnlyDenialsBetween(j) =>
                /\ gateLog[j].now - gateLog[1].now < HOURS_36_IN_MS => Denied(j)
                /\ gateLog[j].now - gateLog[1].now >= HOURS_36_IN_MS => Granted(j)

\* C16 witness: granted with no record, denied in the same millisecond,
\* granted exactly 36 hours after the first check.
C16_Witness ==
    /\ Len(gateLog) = 3
    /\ gateLog[1].before = Missing
    /\ Granted(1)
    /\ gateLog[2].now = gateLog[1].now
    /\ Denied(2)
    /\ gateLog[3].now = gateLog[1].now + HOURS_36_IN_MS
    /\ Granted(3)

(***************************************************************************)
(* shouldRunWorkflow.js statement by statement, with the ways the write of *)
(* the record can fail and the process can be killed.  One gate script     *)
(* runs at a time.                                                         *)
(***************************************************************************)
MaxStepChecks == 2      \* gate scripts run per behaviour of SpecGateSteps

\* Clock readings: right after the epoch, and 36 hours and 36 hours and a
\* millisecond after it.
StepTimes == {1, HOURS_36_IN_MS, HOURS_36_IN_MS + 1}

StepFiles ==
    {Missing, Empty, Unparseable, Json(Undefined), Json(Null), Json(Str),
     Json(Num(0)), Json(Num(1))}

\* Faulty variant of gateDecision: true is returned without the record
\* having been written.
gateDecisionReturnsFirst(lastRan, now) ==
    IF LogThrows(lastRan) THEN [pc |-> "threw", result |-> "threw"]
    ELSE IF Elapsed(now, lastRan) THEN [pc |-> "exit", result |-> "true"]
    ELSE [pc |-> "exit", result |-> "false"]

\* Lines 45 to 56 of shouldRun, after lastRan and now were read: the log line
\* throws, or the branch is taken that calls updateLastRan, or false is
\* returned.
gateDecision(lastRan, now) ==
    IF LogThrows(lastRan) THEN [pc |-> "threw", result |-> "threw"]
    ELSE IF Elapsed(now, lastRan) THEN [pc |-> "open", result |-> "none"]
    ELSE [pc |-> "exit", result |-> "false"]

\* Faulty variant of writeFailed: the exception of writeFileSync is caught
\* and the check goes on to return true.
writeFailedSwallowed == [pc |-> "exit", result |-> "true"]

\* fs.writeFileSync throws inside updateLastRan: nothing in shouldRun or at
\* the top level of the module catches it.
writeFailed == [pc |-> "threw", result |-> "threw"]

\* Faulty variant of exitStatus: the two process.exit calls are swapped.
exitStatusSwapped(result) ==
    IF result = "true" THEN 1
    ELSE IF result = "false" THEN 0
    ELSE IF result = "threw" THEN 1
    ELSE 137

\* The exit status of the script: process.exit(0) after true,
\* process.exit(1) after false, 1 for an uncaught exception, and the status
\* of a killed process otherwise.
exitStatus(result) ==
    IF result = "true" THEN 0
    ELSE IF result = "false" THEN 1
    ELSE IF result = "threw" THEN 1
    ELSE 137

\* The script has ended: what it did is appended to gateLog.
GateFinished(result) ==
    /\ gateLog' = Append(gateLog,
                    [now |-> gateProc.now,
                     before |-> gateProc.before,
                     result |-> result,
                     after |-> workflowTracker,
                     exit |-> exitStatus(result),
                     io |-> gateProc.io])
    /\ gateProc' = GateIdle

\* const lastRan = getLastRan(); const now = Date.now();
GateRead(now) ==
    /\ gateProc.pc = "idle"
    /\ Len(gateLog) < MaxStepChecks
    /\ now >= clock
    /\ clock' = now
    /\ gateProc' = [pc |-> "read", lastRan |-> getLastRan(workflowTracker), now |-> now,
                    before |-> workflowTracker, result |-> "none", io |-> "none"]
    /\ UNCHANGED <<workflowTracker, gateLog, cursorVars, pipelineLog, pipeVars, racers>>

GateDecide ==
    /\ gateProc.pc = "read"
    /\ gateProc' = [gateProc EXCEPT
                        !.pc = gateDecision(gateProc.lastRan, gateProc.now).pc,
                        !.result = gateDecision(gateProc.lastRan, gateProc.now).result]
    /\ UNCHANGED <<workflowTracker, clock, gateLog, cursorVars, pipelineLog, pipeVars, racers>>

\* writeFileSync opens the file for writing, which empties it ...
GateOpen ==
    /\ gateProc.pc = "open"
    /\ workflowTracker' = Empty
    /\ gateProc' = [gateProc EXCEPT !.pc = "write"]
    /\ UNCHANGED <<clock, gateLog, cursorVars, pipelineLog, pipeVars, racers>>

\* ... or fails to open it (no permission, no directory).
GateOpenFails ==
    /\ gateProc.pc = "open"
    /\ gateProc' = [gateProc EXCEPT
                        !.pc = writeFailed.pc, !.result = writeFailed.result,
                        !.io = "openFailed"]
    /\ UNCHANGED <<workflowTracker, clock, gateLog, cursorVars, pipelineLog, pipeVars, racers>>

\* writeFileSync writes the text of the record ...
GateWrite ==
    /\ gateProc.pc = "write"
    /\ workflowTracker' = updateLastRan(gateProc.now)
    /\ gateProc' = [gateProc EXCEPT !.pc = "return", !.io = "ok"]
    /\ UNCHANGED <<clock, gateLog, cursorVars, pipelineLog, pipeVars, racers>>

\* ... or fails to (disk full, I/O error) and leaves the emptied file.
GateWriteFails ==
    /\ gateProc.pc = "write"
    /\ gateProc' = [gateProc EXCEPT
                        !.pc = writeFailed.pc, !.result = writeFailed.result,
                        !.io = "writeFailed"]
    /\ UNCHANGED <<workflowTracker, clock, gateLog, cursorVars, pipelineLog, pipeVars, racers>>

\* return true;
GateReturnTrue ==
    /\ gateProc.pc = "return"
    /\ gateProc' = [gateProc EXCEPT !.pc = "exit", !.result = "true"]
    /\ UNCHANGED <<workflowTracker, clock, gateLog, cursorVars, pipelineLog, pipeVars, racers>>

\* process.exit, or the death of the process by the uncaught exception.
GateExit ==
    /\ gateProc.pc \in {"exit", "threw"}
    /\ GateFinished(gateProc.result)
    /\ UNCHANGED <<workflowTracker, clock, cursorVars, pipelineLog, pipeVars, racers>>

\* The process is killed between two statements.
GateCrash ==
    /\ gateProc.pc \in {"read", "open", "write", "return"}
    /\ GateFinished("crashed")
    /\ UNCHANGED <<workflowTracker, clock, cursorVars, pipelineLog, pipeVars, racers>>

InitGateSteps ==
    /\ workflowTracker \in StepFiles
    /\ clock = 0
    /\ gateLog = <<>>
    /\ gateProc = GateIdle
    /\ topics = ShippedTopics
    /\ topicTracker = Missing
    /\ cursorLog = <<>>
    /\ cursorProc = CursorIdle
    /\ pipelineLog = <<>>
    /\ blog = NoPosts
    /\ pipeProc = PipeIdle
    /\ racers = NoRacers

NextGateSteps ==
    \/ \E now \in StepTimes : GateRead(now)
    \/ GateDecide
    \/ GateOpen
    \/ GateOpenFails
    \/ GateWrite
    \/ GateWriteFails
    \/ GateReturnTrue
    \/ GateExit
    \/ GateCrash

SpecGateSteps == InitGateSteps /\ [][NextGateSteps]_vars

(***************************************************************************)
(* Properties of the gate script, checked under SpecGateSteps.             *)
(***************************************************************************)
\* C17: the script exits with status 0 exactly when shouldRun returned true,
\* and with another status when it returned false.
C17_ExitStatusReportsDecision ==
    \A i \in GateChecks :
        /\ gateLog[i].exit = 0 <=> gateLog[i].result = "true"
        /\ gateLog[i].result = "false" => gateLog[i].exit # 0

\* C17 witness: one script exited 0 after a grant and the next one exited 1
\* after a denial.
C17_Witness ==
    \E i \in GateChecks :
        /\ i + 1 \in GateChecks
        /\ gateLog[i].result = "true"
        /\ gateLog[i].exit = 0
        /\ gateLog[i + 1].result = "false"
        /\ gateLog[i + 1].exit = 1

\* shouldRun has returned true and the script is about to exit.
AboutToSignalPermission == gateProc.pc = "exit" /\ gateProc.result = "true"

\* C18: when shouldRun has returned true, and when the script has exited 0,
\* the record holds the now that the check compared with lastRan.
C18_RecordedBeforeSignalled ==
    /\ AboutToSignalPermission =>
            /\ workflowTracker = Json(Num(gateProc.now))
            /\ Elapsed(gateProc.now, gateProc.lastRan)
    /\ \A i \in GateChecks :
            gateLog[i].exit = 0 =>
                /\ gateLog[i].after = Json(Num(gateLog[i].now))
                /\ Elapsed(gateLog[i].now, getLastRan(gateLog[i].before))

\* C18 witness: shouldRun has just returned true over an older record and the
\* file holds the time of this check.
C18_Witness ==
    /\ AboutToSignalPermission
    /\ gateProc.before = Json(Num(1))
    /\ gateProc.now > 1
    /\ workflowTracker = Json(Num(gateProc.now))

WriteFailed(i) == gateLog[i].io \in {"openFailed", "writeFailed"}

\* C20: a script whose write of the record failed ends with a status other
\* than 0; so every script that exited 0 left its now in the record and two
\* scripts that exited 0 are at least 36 hours apart.
C20_WriteFailureSurfaced ==
    /\ gateProc.io \in {"openFailed", "writeFailed"} => gateProc.result = "threw"
    /\ \A i \in GateChecks :
            /\ WriteFailed(i) => (gateLog[i].result = "threw" /\ gateLog[i].exit # 0)
            /\ gateLog[i].exit = 0 => gateLog[i].after = Json(Num(gateLog[i].now))
    /\ \A i \in GateChecks : \A j \in GateChecks :
            (i < j /\ gateLog[i].exit = 0 /\ gateLog[j].exit = 0)
                => gateLog[j].now - gateLog[i].now >= HOURS_36_IN_MS

\* C20 witness: a granting check failed to write (the file was left empty)
\* and exited 1; the next script found the empty file and was granted.
C20_Witness ==
    \E i \in GateChecks :
        /\ i + 1 \in GateChecks
        /\ gateLog[i].io = "writeFailed"
        /\ gateLog[i].after = Empty
        /\ gateLog[i].exit = 1
        /\ gateLog[i + 1].exit = 0

(***************************************************************************)
(* getNextTopic statement by statement, with the process killed between    *)
(* any two of its steps.  One call runs at a time.                         *)
(***************************************************************************)
MaxStepCalls == 2       \* getNextTopic calls per behaviour of SpecCursorSteps

\* The call has ended, by returning or by the death of the process: what it
\* did is appended to cursorLog.  A killed call returns nothing.
CursorFinished(crashed) ==
    /\ cursorLog' = Append(cursorLog,
                      [before |-> cursorProc.before,
                       nextIndex |-> nextIndexOf(cursorProc.lastIndex, topics),
                       topic |-> IF crashed THEN Undefined
                                 ELSE TopicAt(topics, nextIndexOf(cursorProc.lastIndex, topics)),
                       after |-> topicTracker,
                       crashed |-> crashed])
    /\ cursorProc' = CursorIdle

\* const lastIndex = getLastIndex(); const nextIndex = ...;
CursorRead ==
    /\ cursorProc.pc = "idle"
    /\ Len(cursorLog) < MaxStepCalls
    /\ cursorProc' = [pc |-> "open", lastIndex |-> getLastIndex(topicTracker),
                      before |-> topicTracker]
    /\ UNCHANGED <<gateVars, topics, topicTracker, cursorLog, pipelineLog, pipeVars, racers>>

\* saveLastIndex: writeFileSync opens the file for writing, which empties it,
CursorOpen ==
    /\ cursorProc.pc = "open"
    /\ topicTracker' = Empty
    /\ cursorProc' = [cursorProc EXCEPT !.pc = "write"]
    /\ UNCHANGED <<gateVars, topics, cursorLog, pipelineLog, pipeVars, racers>>

\* and then writes the text of the record.
CursorWrite ==
    /\ cursorProc.pc = "write"
    /\ topicTracker' = saveLastIndex(nextIndexOf(cursorProc.lastIndex, topics))
    /\ cursorProc' = [cursorProc EXCEPT !.pc = "return"]
    /\ UNCHANGED <<gateVars, topics, cursorLog, pipelineLog, pipeVars, racers>>

\* return topics[nextIndex];
CursorReturn ==
    /\ cursorProc.pc = "return"
    /\ CursorFinished(FALSE)
    /\ UNCHANGED <<gateVars, topics, topicTracker, pipelineLog, pipeVars, racers>>

\* The process is killed between two steps.
CursorCrash ==
    /\ cursorProc.pc \in {"open", "write", "return"}
    /\ CursorFinished(TRUE)
    /\ UNCHANGED <<gateVars, topics, topicTracker, pipelineLog, pipeVars, racers>>

InitCursorSteps ==
    /\ workflowTracker = Missing
    /\ clock = 0
    /\ gateLog = <<>>
    /\ gateProc = GateIdle
    /\ topics \in Catalogs
    /\ topicTracker \in TopicTrackerFiles(topics)
    /\ cursorLog = <<>>
    /\ cursorProc = CursorIdle
    /\ pipelineLog = <<>>
    /\ blog = NoPosts
    /\ pipeProc = PipeIdle
    /\ racers = NoRacers

NextCursorSteps ==
    \/ CursorRead
    \/ CursorOpen
    \/ CursorWrite
    \/ CursorReturn
    \/ CursorCrash

SpecCursorSteps == InitCursorSteps /\ [][NextCursorSteps]_vars

(***************************************************************************)
(* Properties of a getNextTopic call, checked under SpecCursorSteps.       *)
(***************************************************************************)
\* The record holds an index of the catalog.
ValidCursor(file) ==
    /\ file.kind = "json"
    /\ IsNum(file.val)
    /\ file.val.v \in 0..(Len(topics) - 1)

\* C19, for a catalog of more than one entry and a call that found a valid
\* record: after a call during which the process was killed, the file reads
\* as the lastIndex from before the call or as the new index, so the next
\* call does not restart the rotation.
C19_AdvanceIsAtomic ==
    \A k \in CursorCalls :
        (Len(topics) > 1 /\ ValidCursor(cursorLog[k].before) /\ cursorLog[k].crashed) =>
            getLastIndex(cursorLog[k].after) \in
                {getLastIndex(cursorLog[k].before), cursorLog[k].nextIndex}

(***************************************************************************)
(* fetchAndSavePost.js statement by statement: getNextTopic (read, open,   *)
(* write, return), fetchPost, savePost, and the success log or the catch   *)
(* block.  Each write of a file can fail with an exception.  The script is *)
(* run on its own (node src/utils/fetchAndSavePost.js), one run at a time. *)
(***************************************************************************)
MaxRuns == 2

\* One entry of the trace of calls a run makes.
Call(fn, topic, content) == [fn |-> fn, topic |-> topic, content |-> content]

\* The status the script exits with: 0 once the event loop is empty, 1 when
\* a rejection of fetchAndSavePost() is left unhandled.
scriptExitStatus(escaped) == IF escaped THEN 1 ELSE 0

\* The run is over: the promise of fetchAndSavePost() has settled.
PipeFinished(log, escaped) ==
    /\ pipelineLog' = Append(pipelineLog,
                        [topic |-> pipeProc.topic,
                         threw |-> pipeProc.threw,
                         calls |-> pipeProc.calls,
                         logs |-> Append(pipeProc.logs, log),
                         escaped |-> escaped,
                         exit |-> scriptExitStatus(escaped),
                         cursorBefore |-> pipeProc.cursorBefore,
                         cursorSaved |-> pipeProc.cursorSaved,
                         cursorAfter |-> topicTracker,
                         blogBefore |-> pipeProc.blogBefore,
                         blogAfter |-> blog])
    /\ pipeProc' = PipeIdle

\* An exception inside the try block: control moves to the catch block.
Throw(from) == pipeProc' = [pipeProc EXCEPT !.pc = "catch", !.threw = from]

\* const topic = getNextTopic();  -- getLastIndex and nextIndex
PipeCursorRead ==
    /\ pipeProc.pc = "idle"
    /\ Len(pipelineLog) < MaxRuns
    /\ pipeProc' = [pipeProc EXCEPT !.pc = "open",
                                    !.lastIndex = getLastIndex(topicTracker),
                                    !.cursorBefore = topicTracker,
                                    !.blogBefore = blog,
                                    !.calls = <<Call("getNextTopic", Undefined, Undefined)>>]
    /\ UNCHANGED <<gateVars, cursorVars, pipelineLog, blog, racers>>

\* saveLastIndex: writeFileSync opens the record for writing, which empties it,
PipeCursorOpen ==
    /\ pipeProc.pc = "open"
    /\ topicTracker' = Empty
    /\ pipeProc' = [pipeProc EXCEPT !.pc = "write"]
    /\ UNCHANGED <<gateVars, topics, cursorLog, cursorProc, pipelineLog, blog, racers>>

\* or fails to open it,
PipeCursorOpenFails ==
    /\ pipeProc.pc = "open"
    /\ Throw("getNextTopic")
    /\ UNCHANGED <<gateVars, cursorVars, pipelineLog, blog, racers>>

\* then writes the text of the record,
PipeCursorWrite ==
    /\ pipeProc.pc = "write"
    /\ topicTracker' = saveLastIndex(nextIndexOf(pipeProc.lastIndex, topics))
    /\ pipeProc' = [pipeProc EXCEPT !.pc = "return"]
    /\ UNCHANGED <<gateVars, topics, cursorLog, cursorProc, pipelineLog, blog, racers>>

\* Faulty variant of PipeCursorWriteFails: the failed write goes unnoticed and
\* getNextTopic returns the topic.
PipeCursorWriteFailsUnnoticed ==
    /\ pipeProc.pc = "write"
    /\ pipeProc' = [pipeProc EXCEPT !.pc = "return", !.threw = "getNextTopic"]
    /\ UNCHANGED <<gateVars, cursorVars, pipelineLog, blog, racers>>

\* or fails to write it.
PipeCursorWriteFails ==
    /\ pipeProc.pc = "write"
    /\ Throw("getNextTopic")
    /\ UNCHANGED <<gateVars, cursorVars, pipelineLog, blog, racers>>

\* return topics[nextIndex];
PipeCursorReturn ==
    /\ pipeProc.pc = "return"
    /\ pipeProc' = [pipeProc EXCEPT !.pc = "fetchPost",
                                    !.topic = TopicAt(topics, nextIndexOf(pipeProc.lastIndex, topics)),
                                    !.cursorSaved = topicTracker]
    /\ UNCHANGED <<gateVars, cursorVars, pipelineLog, blog, racers>>

\* const content = await fetchPost(topic);
PipeFetchPost(response) ==
    /\ pipeProc.pc = "fetchPost"
    /\ LET r == fetchPost(pipeProc.topic, response)
           called == Append(pipeProc.calls, Call("fetchPost", pipeProc.topic, Undefined))
       IN  pipeProc' = IF r.threw
                       THEN [pipeProc EXCEPT !.pc = "catch", !.threw = "fetchPost",
                                             !.calls = called]
                       ELSE [pipeProc EXCEPT !.pc = "savePost", !.content = r.content,
                                             !.calls = called]
    /\ UNCHANGED <<gateVars, cursorVars, pipelineLog, blog, racers>>

\* const filePath = savePost(topic.title, topic.about, content);
PipeSavePost ==
    /\ pipeProc.pc = "savePost"
    /\ blog' = savePost(blog, pipeProc.topic.title, aboutOf(pipeProc.topic.title),
                        pipeProc.content)
    /\ pipeProc' = [pipeProc EXCEPT !.pc = "log",
                        !.calls = Append(@, Call("savePost", pipeProc.topic, pipeProc.content))]
    /\ UNCHANGED <<gateVars, cursorVars, pipelineLog, racers>>

\* savePost throws: mkdirSync or the opening of the file failed (nothing is
\* created), or the write failed after the file was opened (an empty file).
PipeSavePostFails(opened) ==
    /\ pipeProc.pc = "savePost"
    /\ blog' \in IF opened THEN {writePost(blog, slug(pipeProc.topic.title), EmptyPost)}
                 ELSE {blog, mkdirSync(blog)}
    /\ pipeProc' = [pipeProc EXCEPT !.pc = "catch", !.threw = "savePost",
                        !.calls = Append(@, Call("savePost", pipeProc.topic, pipeProc.content))]
    /\ UNCHANGED <<gateVars, cursorVars, pipelineLog, racers>>

\* console.log(`Post titled ... saved to ...`), the end of the try block.
PipeLogSuccess ==
    /\ pipeProc.pc = "log"
    /\ PipeFinished("saved", FALSE)
    /\ UNCHANGED <<gateVars, cursorVars, blog, racers>>

\* Faulty variant of PipeCatch: the catch block throws the error again.
PipeCatchRethrows ==
    /\ pipeProc.pc = "catch"
    /\ PipeFinished("error", TRUE)
    /\ UNCHANGED <<gateVars, cursorVars, blog, racers>>

\* Faulty variant of PipeCatch: the catch block puts the cursor record back.
PipeCatchRollsBack ==
    /\ pipeProc.pc = "catch"
    /\ topicTracker' = pipeProc.cursorBefore
    /\ pipelineLog' = Append(pipelineLog,
                        [topic |-> pipeProc.topic,
                         threw |-> pipeProc.threw,
                         calls |-> pipeProc.calls,
                         logs |-> Append(pipeProc.logs, "error"),
                         escaped |-> FALSE,
                         exit |-> scriptExitStatus(FALSE),
                         cursorBefore |-> pipeProc.cursorBefore,
                         cursorSaved |-> pipeProc.cursorSaved,
                         cursorAfter |-> pipeProc.cursorBefore,
                         blogBefore |-> pipeProc.blogBefore,
                         blogAfter |-> blog])
    /\ pipeProc' = PipeIdle
    /\ UNCHANGED <<gateVars, topics, cursorLog, cursorProc, blog, racers>>

\* catch (error) { console.error("Error in fetchAndSavePost:", error); }
PipeCatch ==
    /\ pipeProc.pc = "catch"
    /\ PipeFinished("error", FALSE)
    /\ UNCHANGED <<gateVars, cursorVars, blog, racers>>

\* The cursor records a run starts from: none, a damaged one, one near the
\* end of the catalog (the rotation wraps within a few runs), one that is out
\* of range.
PipelineTrackerFiles(catalog) ==
    {Missing, Empty, Unparseable, Json(Undefined), Json(Null), Json(Str)}
        \cup { Json(Num(i)) : i \in {0 - 2} \cup ((Len(catalog) - 2)..Len(catalog)) }

InitPipeline ==
    /\ workflowTracker = Missing
    /\ clock = 0
    /\ gateLog = <<>>
    /\ gateProc = GateIdle
    /\ topics \in Catalogs
    /\ topicTracker \in PipelineTrackerFiles(topics)
    /\ cursorLog = <<>>
    /\ cursorProc = CursorIdle
    /\ pipelineLog = <<>>
    /\ blog = NoPosts
    /\ pipeProc = PipeIdle
    /\ racers = NoRacers

NextPipeline ==
    \/ PipeCursorRead
    \/ PipeCursorOpen
    \/ PipeCursorOpenFails
    \/ PipeCursorWrite
    \/ PipeCursorWriteFails
    \/ PipeCursorReturn
    \/ \E response \in Responses : PipeFetchPost(response)
    \/ PipeSavePost
    \/ \E opened \in BOOLEAN : PipeSavePostFails(opened)
    \/ PipeLogSuccess
    \/ PipeCatch

SpecPipeline == InitPipeline /\ [][NextPipeline]_vars

(***************************************************************************)
(* Claims about the pipeline                                               *)
(***************************************************************************)
Runs == 1..Len(pipelineLog)

\* The names of the functions a run called, in order.
Called(r) == [i \in 1..Len(pipelineLog[r].calls) |-> pipelineLog[r].calls[i].fn]

\* C21: a run in which saveLastIndex threw ends in the catch block of the
\* caller, without a topic: fetchPost and savePost are not called and the blog
\* folder is as it was before the run.
C21_CursorFailureStopsRun ==
    \A r \in Runs :
        pipelineLog[r].threw = "getNextTopic" =>
            /\ pipelineLog[r].logs = <<"error">>
            /\ pipelineLog[r].topic = Undefined
            /\ Called(r) = <<"getNextTopic">>
            /\ pipelineLog[r].blogAfter = pipelineLog[r].blogBefore

\* The write of the cursor record failed after the file was opened, in a run
\* that follows a run which saved a post.
C21_Witness ==
    \E r \in Runs :
        /\ r > 1
        /\ pipelineLog[r - 1].logs = <<"saved">>
        /\ pipelineLog[r].threw = "getNextTopic"
        /\ pipelineLog[r].cursorAfter = Empty
        /\ pipelineLog[r].blogAfter # NoPosts

\* C22: a run in which getNextTopic threw does not end with exit status 0.
C22_CursorFailureExitsNonZero ==
    \A r \in Runs : pipelineLog[r].threw = "getNextTopic" => pipelineLog[r].exit # 0

\* The cursor moved by one position of the catalog between two records.
AdvancedByOne(before, saved) ==
    /\ IsNum(getLastIndex(before))
    /\ getLastIndex(before).v \in (0 - 1)..(Len(topics) - 1)
    /\ saved = Json(Num((getLastIndex(before).v + 1) % Len(topics)))

\* C25, for the runs in which the cursor record could be written: the run
\* calls getNextTopic, then fetchPost with the topic returned, then savePost
\* with that topic and the text fetchPost returned, and the cursor record
\* moves by one position.
C25_OneTopicPerRunInOrder ==
    \A r \in Runs :
        pipelineLog[r].threw # "getNextTopic" =>
            /\ Called(r) = <<"getNextTopic", "fetchPost", "savePost">>
            /\ pipelineLog[r].topic # Undefined
            /\ pipelineLog[r].calls[2].topic = pipelineLog[r].topic
            /\ pipelineLog[r].calls[3].topic = pipelineLog[r].topic
            /\ \E response \in Responses :
                   pipelineLog[r].calls[3].content =
                       fetchPost(pipelineLog[r].topic, response).content
            /\ AdvancedByOne(pipelineLog[r].cursorBefore, pipelineLog[r].cursorSaved)

\* The post of a run, as savePost writes it.
PostOf(r, content) ==
    Post(pipelineLog[r].topic.title, aboutOf(pipelineLog[r].topic.title), content)

\* C26: for every catalog entry fetchPost returns, whatever the request comes
\* to, and what it returns after a failure is the fallback text with the
\* title, the about text and the error (the catalog never changes, so this
\* is evaluated before the first run has ended); a run whose getNextTopic returned a
\* topic never fails in fetchPost, and a run in which nothing threw leaves
\* the post of its topic in the blog folder, with the generated text or the
\* fallback text.
C26_GenerationNeverRaises ==
    /\ Len(pipelineLog) = 0 =>
           \A i \in 1..Len(topics) : \A response \in Responses :
               LET topic == [title |-> topics[i]]
               IN  /\ ~fetchPost(topic, response).threw
                   /\ response # "content" =>
                          fetchPost(topic, response).content =
                              [kind |-> "fallback", title |-> topics[i],
                               about |-> ShippedAbouts[i], error |-> response]
    /\ \A r \in Runs :
           /\ pipelineLog[r].topic # Undefined => pipelineLog[r].threw # "fetchPost"
           /\ pipelineLog[r].threw = "none" =>
                  /\ savePostPath(pipelineLog[r].topic.title) \in DOMAIN pipelineLog[r].blogAfter
                  /\ \E response \in Responses :
                         pipelineLog[r].blogAfter[savePostPath(pipelineLog[r].topic.title)] =
                             PostOf(r, fetchPost(pipelineLog[r].topic, response).content)

\* A run whose request failed saved the fallback text as a post.
C26_Witness ==
    \E r \in Runs :
        /\ pipelineLog[r].logs = <<"saved">>
        /\ pipelineLog[r].blogAfter[savePostPath(pipelineLog[r].topic.title)].content.kind
               = "fallback"

\* C27: when a run is over the cursor record is the one its getNextTopic call
\* wrote, whether the run saved a post or failed after that call; the next
\* run whose getNextTopic returns takes the following entry of the catalog,
\* so it takes the same topic again only when the catalog has a single entry.
C27_CursorUnaffectedByLaterSteps ==
    \A r \in Runs :
        pipelineLog[r].threw # "getNextTopic" =>
            /\ pipelineLog[r].cursorAfter = pipelineLog[r].cursorSaved
            /\ (r + 1 \in Runs /\ pipelineLog[r].topic # Undefined
                    /\ pipelineLog[r + 1].threw # "getNextTopic") =>
                   /\ AdvancedByOne(pipelineLog[r].cursorSaved, pipelineLog[r + 1].cursorSaved)
                   /\ Len(topics) > 1 => pipelineLog[r + 1].topic # pipelineLog[r].topic

\* A run failed in savePost and the next run saved the post of the next topic.
C27_Witness ==
    \E r \in Runs :
        /\ r + 1 \in Runs
        /\ pipelineLog[r].threw = "savePost"
        /\ pipelineLog[r].logs = <<"error">>
        /\ pipelineLog[r + 1].logs = <<"saved">>
        /\ pipelineLog[r + 1].topic # pipelineLog[r].topic

\* C29: a run in which savePost returned wrote a file that did not exist
\* before the run.
C29_SavedToNewFile ==
    \A r \in Runs :
        pipelineLog[r].logs = <<"saved">> =>
            savePostPath(pipelineLog[r].topic.title) \notin DOMAIN pipelineLog[r].blogBefore

\* A run of the pipeline script has ended in this step.
PipelineRunStep == Len(pipelineLog') = Len(pipelineLog) + 1

\* The two tracker files and the post files are different files.
FilesApart ==
    /\ GateTrackerPath # CursorTrackerPath
    /\ \A i \in 1..Len(ShippedTopics) :
           savePostPath(ShippedTopics[i]) \notin {GateTrackerPath, CursorTrackerPath}

\* C28: the tracker files and the posts are different files; a gate check
\* leaves the cursor record and the blog folder as they are and its outcome
\* is determined by the timestamp record and the clock; a pipeline run leaves
\* the timestamp record as it is, and the cursor record after the run is the
\* one getNextTopic wrote from the cursor record and the catalog alone.
C28_RecordsOwnedByOneComponent ==
    FilesApart /\
    [][/\ GateCheckStep =>
            /\ topicTracker' = topicTracker
            /\ blog' = blog
            /\ workflowTracker' = shouldRunFile(workflowTracker, clock')
       /\ PipelineRunStep =>
            /\ workflowTracker' = workflowTracker
            /\ topicTracker' = getNextTopicFile(topicTracker, topics)]_vars

\* Both components have written: a granted check left its timestamp, and the
\* run it permitted left the cursor record and a post.
C28_Witness ==
    /\ Len(gateLog) > 1
    /\ gateLog[1].result = "true"
    /\ workflowTracker = Json(Num(gateLog[1].now))
    /\ Len(pipelineLog) = 1
    /\ pipelineLog[1].outcome = "saved"
    /\ topicTracker = Json(Num(0))
    /\ DOMAIN blog = {BlogFolder, savePostPath(ShippedTopics[1])}

(***************************************************************************)
(* Termination of a pipeline run.  Every statement of the script returns   *)
(* or throws, and the awaited request settles (it is answered, refused or  *)
(* timed out), so a run that has started keeps taking steps.               *)
(***************************************************************************)
\* A step of a run that is under way.
PipeStep ==
    \/ PipeCursorOpen
    \/ PipeCursorOpenFails
    \/ PipeCursorWrite
    \/ PipeCursorWriteFails
    \/ PipeCursorReturn
    \/ \E response \in Responses : PipeFetchPost(response)
    \/ PipeSavePost
    \/ \E opened \in BOOLEAN : PipeSavePostFails(opened)
    \/ PipeLogSuccess
    \/ PipeCatch

\* The runs over the shipped catalog.
InitPipelineFair == InitPipeline /\ topics = ShippedTopics

SpecPipelineFair == InitPipelineFair /\ [][NextPipeline]_vars /\ WF_vars(PipeStep)

\* The last function a run called.
LastCalled(r) == pipelineLog[r].calls[Len(pipelineLog[r].calls)].fn

\* A run ended as the orchestrator lets it end: no error left the function,
\* and either the success line was logged after savePost returned, or the
\* error line was logged and the function that threw was the last one called.
EndedInOneOutcome(r) ==
    /\ ~pipelineLog[r].escaped
    /\ \/ /\ pipelineLog[r].logs = <<"saved">>
          /\ pipelineLog[r].threw = "none"
          /\ LastCalled(r) = "savePost"
          /\ savePostPath(pipelineLog[r].topic.title) \in DOMAIN pipelineLog[r].blogAfter
       \/ /\ pipelineLog[r].logs = <<"error">>
          /\ pipelineLog[r].threw \in {"getNextTopic", "fetchPost", "savePost"}
          /\ LastCalled(r) = pipelineLog[r].threw

\* C30: every run that starts comes to an end, and every run that has ended
\* ended in exactly one of the two outcomes.
C30_RunEndsInOneOutcome ==
    /\ [](\A r \in Runs : EndedInOneOutcome(r))
    /\ \A n \in 0..(MaxRuns - 1) :
           (pipeProc.pc # "idle" /\ Len(pipelineLog) = n)
               ~> (pipeProc.pc = "idle" /\ Len(pipelineLog) = n + 1)

\* Two runs have ended, one in each outcome.
C30_Witness ==
    /\ Len(pipelineLog) = 2
    /\ pipelineLog[1].logs = <<"error">>
    /\ pipelineLog[1].threw = "savePost"
    /\ pipelineLog[2].logs = <<"saved">>
    /\ pipeProc.pc = "idle"

(***************************************************************************)
(* Several gate scripts at the same time.  Nothing in shouldRunWorkflow.js *)
(* locks the record, so the statements of the scripts interleave freely;   *)
(* each script makes one check.                                            *)
(***************************************************************************)
MaxRacers == 2

Racers == 1..MaxRacers

\* Script p moves to the state next; the other scripts stay where they are.
Moves(p, next) == racers' = [racers EXCEPT ![p] = next]

\* const lastRan = getLastRan(); const now = Date.now();
RaceGateRead(p, now) ==
    /\ racers[p].pc = "idle"
    /\ now >= clock
    /\ clock' = now
    /\ Moves(p, [pc |-> "read", lastRan |-> getLastRan(workflowTracker), now |-> now,
                 before |-> workflowTracker, result |-> "none", io |-> "none"])
    /\ UNCHANGED <<workflowTracker, gateLog, gateProc, cursorVars, pipelineLog, pipeVars>>

\* the log lines and the if statement
RaceGateDecide(p) ==
    /\ racers[p].pc = "read"
    /\ Moves(p, [racers[p] EXCEPT
                    !.pc = gateDecision(racers[p].lastRan, racers[p].now).pc,
                    !.result = gateDecision(racers[p].lastRan, racers[p].now).result])
    /\ UNCHANGED <<gateVars, cursorVars, pipelineLog, pipeVars>>

\* Faulty variant of RaceGateOpen: the record is written only if it is still
\* the one that was read, otherwise the check returns false.
RaceGateOpenIfUnchanged(p) ==
    /\ racers[p].pc = "open"
    /\ IF workflowTracker = racers[p].before
       THEN /\ workflowTracker' = Empty
            /\ Moves(p, [racers[p] EXCEPT !.pc = "write"])
       ELSE /\ workflowTracker' = workflowTracker
            /\ Moves(p, [racers[p] EXCEPT !.pc = "exit", !.result = "false"])
    /\ UNCHANGED <<clock, gateLog, gateProc, cursorVars, pipelineLog, pipeVars>>

\* updateLastRan(now): writeFileSync opens the record, which empties it,
RaceGateOpen(p) ==
    /\ racers[p].pc = "open"
    /\ workflowTracker' = Empty
    /\ Moves(p, [racers[p] EXCEPT !.pc = "write"])
    /\ UNCHANGED <<clock, gateLog, gateProc, cursorVars, pipelineLog, pipeVars>>

\* and writes the text; return true;
RaceGateWrite(p) ==
    /\ racers[p].pc = "write"
    /\ workflowTracker' = updateLastRan(racers[p].now)
    /\ Moves(p, [racers[p] EXCEPT !.pc = "exit", !.result = "true", !.io = "ok"])
    /\ UNCHANGED <<clock, gateLog, gateProc, cursorVars, pipelineLog, pipeVars>>

\* process.exit, or the death of the script by the uncaught exception.
RaceGateExit(p) ==
    /\ racers[p].pc \in {"exit", "threw"}
    /\ gateLog' = Append(gateLog,
                    [now |-> racers[p].now,
                     before |-> racers[p].before,
                     result |-> racers[p].result,
                     after |-> workflowTracker,
                     exit |-> exitStatus(racers[p].result),
                     io |-> racers[p].io])
    /\ Moves(p, [racers[p] EXCEPT !.pc = "done"])
    /\ UNCHANGED <<workflowTracker, clock, gateProc, cursorVars, pipelineLog, pipeVars>>

InitGateRace ==
    /\ workflowTracker \in StepFiles
    /\ clock = 0
    /\ gateLog = <<>>
    /\ gateProc = GateIdle
    /\ topics = ShippedTopics
    /\ topicTracker = Missing
    /\ cursorLog = <<>>
    /\ cursorProc = CursorIdle
    /\ pipelineLog = <<>>
    /\ blog = NoPosts
    /\ pipeProc = PipeIdle
    /\ racers = [p \in Racers |-> GateIdle]

NextGateRace ==
    \E p \in Racers :
        \/ \E now \in StepTimes : RaceGateRead(p, now)
        \/ RaceGateDecide(p)
        \/ RaceGateOpen(p)
        \/ RaceGateWrite(p)
        \/ RaceGateExit(p)

SpecGateRace == InitGateRace /\ [][NextGateRace]_vars

\* Two checks read the same record, for which the cooldown has elapsed at
\* the clock reading of each of them.
BothEntitled(i, j) ==
    /\ gateLog[i].before = gateLog[j].before
    /\ shouldRunResult(gateLog[i].before, gateLog[i].now) = "true"
    /\ shouldRunResult(gateLog[j].before, gateLog[j].now) = "true"

\* C23: nothing between the read and the write of one check notices the
\* write of another: whenever two checks have read the same record and the
\* cooldown has elapsed for each, both return true and exit with status 0,
\* however close their clock readings are.
C23_ConcurrentChecksBothGranted ==
    \A i \in GateChecks : \A j \in GateChecks :
        (i # j /\ BothEntitled(i, j)) =>
            /\ gateLog[i].result = "true" /\ gateLog[i].exit = 0
            /\ gateLog[j].result = "true" /\ gateLog[j].exit = 0

\* Two checks at the same instant, 36 hours after the recorded run, both
\* read that record and both returned true: two runs in one cooldown window.
C23_Witness ==
    /\ Len(gateLog) = 2
    /\ gateLog[1].before = Json(Num(1))
    /\ gateLog[2].before = Json(Num(1))
    /\ gateLog[1].now = HOURS_36_IN_MS + 1
    /\ gateLog[2].now = HOURS_36_IN_MS + 1
    /\ gateLog[1].result = "true"
    /\ gateLog[2].result = "true"
    /\ gateLog[2].now - gateLog[1].now < HOURS_36_IN_MS

(***************************************************************************)
(* Several getNextTopic calls at the same time, each in its own process.   *)
(***************************************************************************)
CursorRacerIdle ==
    [pc |-> "idle", lastIndex |-> Num(0 - 1), before |-> Missing, saved |-> Missing]

\* const lastIndex = getLastIndex(); const nextIndex = ...;
RaceCursorRead(p) ==
    /\ racers[p].pc = "idle"
    /\ Moves(p, [racers[p] EXCEPT !.pc = "open",
                                  !.lastIndex = getLastIndex(topicTracker),
                                  !.before = topicTracker])
    /\ UNCHANGED <<gateVars, cursorVars, pipelineLog, pipeVars>>

\* saveLastIndex(nextIndex): writeFileSync opens the record, which empties it,
RaceCursorOpen(p) ==
    /\ racers[p].pc = "open"
    /\ topicTracker' = Empty
    /\ Moves(p, [racers[p] EXCEPT !.pc = "write"])
    /\ UNCHANGED <<gateVars, topics, cursorLog, cursorProc, pipelineLog, pipeVars>>

\* Faulty variant of RaceCursorWrite: the index is computed again from the
\* record as it is when the text is written.
RaceCursorWriteRereads(p) ==
    /\ racers[p].pc = "write"
    /\ topicTracker' = saveLastIndex(nextIndexOf(getLastIndex(topicTracker), topics))
    /\ Moves(p, [racers[p] EXCEPT
                    !.pc = "return",
                    !.lastIndex = getLastIndex(topicTracker),
                    !.saved = saveLastIndex(nextIndexOf(getLastIndex(topicTracker), topics))])
    /\ UNCHANGED <<gateVars, topics, cursorLog, cursorProc, pipelineLog, pipeVars>>

\* and writes the text.
RaceCursorWrite(p) ==
    /\ racers[p].pc = "write"
    /\ topicTracker' = saveLastIndex(nextIndexOf(racers[p].lastIndex, topics))
    /\ Moves(p, [racers[p] EXCEPT
                    !.pc = "return",
                    !.saved = saveLastIndex(nextIndexOf(racers[p].lastIndex, topics))])
    /\ UNCHANGED <<gateVars, topics, cursorLog, cursorProc, pipelineLog, pipeVars>>

\* return topics[nextIndex];
RaceCursorReturn(p) ==
    /\ racers[p].pc = "return"
    /\ cursorLog' = Append(cursorLog,
                      [before |-> racers[p].before,
                       nextIndex |-> nextIndexOf(racers[p].lastIndex, topics),
                       topic |-> TopicAt(topics, nextIndexOf(racers[p].lastIndex, topics)),
                       saved |-> racers[p].saved,
                       after |-> topicTracker])
    /\ Moves(p, [racers[p] EXCEPT !.pc = "done"])
    /\ UNCHANGED <<gateVars, topics, topicTracker, cursorProc, pipelineLog, pipeVars>>

InitCursorRace ==
    /\ workflowTracker = Missing
    /\ clock = 0
    /\ gateLog = <<>>
    /\ gateProc = GateIdle
    /\ topics \in Catalogs
    /\ topicTracker \in PipelineTrackerFiles(topics)
    /\ cursorLog = <<>>
    /\ cursorProc = CursorIdle
    /\ pipelineLog = <<>>
    /\ blog = NoPosts
    /\ pipeProc = PipeIdle
    /\ racers = [p \in Racers |-> CursorRacerIdle]

NextCursorRace ==
    \E p \in Racers :
        \/ RaceCursorRead(p)
        \/ RaceCursorOpen(p)
        \/ RaceCursorWrite(p)
        \/ RaceCursorReturn(p)

SpecCursorRace == InitCursorRace /\ [][NextCursorRace]_vars

\* Two calls read the same valid record of a catalog of more than one entry.
ReadTheSame(i, j) ==
    /\ i # j
    /\ Len(topics) > 1
    /\ ValidCursor(cursorLog[i].before)
    /\ cursorLog[i].before = cursorLog[j].before

\* The entries the cursor passes on its way from index k to index a.
Passed(k, a) == { (k + d) % Len(topics) : d \in 1..((a - k) % Len(topics)) }

\* An entry the cursor passed, between the index the two calls read and the
\* index they persisted, was returned by neither of them.
Skipped(i, j) ==
    \E m \in Passed(cursorLog[i].before.val.v, getLastIndex(cursorLog[j].saved).v) :
        /\ cursorLog[i].topic # Entry(m)
        /\ cursorLog[j].topic # Entry(m)

\* C24 as stated: two calls that read the same lastIndex skip a topic.
C24_SameReadSkipsTopic ==
    \A i \in CursorCalls : \A j \in CursorCalls : ReadTheSame(i, j) => Skipped(i, j)

\* C24: two calls that read the same lastIndex compute and persist the same
\* next index and return the same topic, the entry after the one read; the
\* cursor moves by one position for the two calls and passes no entry that
\* was not returned.
C24_SameReadRepeatsTopic ==
    \A i \in CursorCalls : \A j \in CursorCalls :
        ReadTheSame(i, j) =>
            /\ cursorLog[i].nextIndex = cursorLog[j].nextIndex
            /\ cursorLog[i].saved = cursorLog[j].saved
            /\ cursorLog[i].saved =
                   Json(Num((cursorLog[i].before.val.v + 1) % Len(topics)))
            /\ cursorLog[i].topic = cursorLog[j].topic
            /\ cursorLog[i].topic = Entry((cursorLog[i].before.val.v + 1) % Len(topics))
            /\ ~Skipped(i, j)

\* Two calls over the first three entries both read {lastIndex: 1}, both
\* returned the third entry, and the record holds 2.
C24_Witness ==
    /\ Len(topics) = 3
    /\ Len(cursorLog) = 2
    /\ cursorLog[1].before = Json(Num(1))
    /\ cursorLog[2].before = Json(Num(1))
    /\ cursorLog[1].topic = Entry(2)
    /\ cursorLog[2].topic = Entry(2)
    /\ topicTracker = Json(Num(2))

\* ---------------------------------------------------------------------
\* Fairness of the rotation.

\* The number of calls so far that returned catalog[i].
TimesReturned(i) == Cardinality({ k \in CursorCalls : cursorLog[k].topic = Entry(i) })

\* The calls started from a missing or a valid cursor record.
FromMissingOrValid ==
    /\ Len(cursorLog) > 0
    /\ cursorLog[1].before = Missing \/ ValidCursor(cursorLog[1].before)

\* C35: the rotation is fair: after any number of sequential getNextTopic
\* calls that started from a missing or a valid cursor record, the numbers
\* of times any two catalog entries have been returned differ by at most 1.
C35_RotationIsFair ==
    FromMissingOrValid =>
        \A a, b \in { TimesReturned(i) : i \in 0..(Len(topics) - 1) } : a - b <= 1

\* C35 witness: more than one round over the shipped catalog from a record
\* in the middle of it: some entries came twice, the others once.
C35_Witness ==
    /\ topics = ShippedTopics
    /\ cursorLog # <<>>
    /\ ValidCursor(cursorLog[1].before)
    /\ cursorLog[1].before.val.v > 0
    /\ Len(cursorLog) > Len(topics)
    /\ \E i, j \in 0..(Len(topics) - 1) : TimesReturned(i) = 2 /\ TimesReturned(j) = 1

\* ---------------------------------------------------------------------
\* savePost on arbitrary titles.

MaxTitleLength == 5

\* A lower-case letter, an upper-case letter, a digit, two kinds of white
\* space and a character that is none of them.
TitleAlphabet == {"a", "B", "7", " ", "\t", "-"}

RECURSIVE TitlesUpTo(_)
TitlesUpTo(n) ==
    IF n = 0 THEN {<<>>}
    ELSE LET shorter == TitlesUpTo(n - 1)
         IN  shorter \cup { Append(t, c) : t \in shorter, c \in TitleAlphabet }

Titles == TitlesUpTo(MaxTitleLength)

\* A call savePost(title, description, content) before its first statement.
SavePostCalled(title, files) ==
    [pc |-> "savePost", title |-> title, filePath |-> BlogFolder, blogBefore |-> files]

\* savePost(title, description, content): slug, folder, file, return filePath.
SavePost ==
    /\ pipeProc.pc = "savePost"
    /\ blog' = writePost(blog, slugify(pipeProc.title), Post(pipeProc.title, <<>>, Str))
    /\ pipeProc' = [pipeProc EXCEPT !.pc = "returned",
                                    !.filePath = PostPath(slugify(pipeProc.title))]
    /\ UNCHANGED <<gateVars, cursorVars, pipelineLog, racers>>

InitSavePost ==
    /\ workflowTracker = Missing
    /\ clock = 0
    /\ gateLog = <<>>
    /\ gateProc = GateIdle
    /\ topics = ShippedTopics
    /\ topicTracker = Missing
    /\ cursorLog = <<>>
    /\ cursorProc = CursorIdle
    /\ pipelineLog = <<>>
    /\ blog \in {NoPosts, mkdirSync(NoPosts)}
    /\ \E title \in Titles : pipeProc = SavePostCalled(title, blog)
    /\ racers = NoRacers

NextSavePost == SavePost

SpecSavePost == InitSavePost /\ [][NextSavePost]_vars

SlugCharacters == Range(LowerCase) \cup Digits \cup {"-"}

\* C32: for every title the slug consists only of a-z, 0-9 and "-", neither
\* begins nor ends with "-" and has no two "-" in a row; savePost writes the
\* post to <slug>.md in the blog folder, which exists afterwards whether or
\* not it did before, and returns the path of that file.
C32_SlugIsFilesystemSafe ==
    pipeProc.pc = "returned" =>
        LET name == pipeProc.filePath.name
        IN  /\ name = slugify(pipeProc.title)
            /\ \A i \in 1..Len(name) : name[i] \in SlugCharacters
            /\ name # <<>> => name[1] # "-" /\ name[Len(name)] # "-"
            /\ \A i \in 1..(Len(name) - 1) : ~(name[i] = "-" /\ name[i + 1] = "-")
            /\ pipeProc.filePath = Path(<<"src", "content", "blog">>, name, "md")
            /\ DOMAIN blog = {BlogFolder, pipeProc.filePath}
            /\ blog[BlogFolder] = Folder
            /\ blog[pipeProc.filePath] = Post(pipeProc.title, <<>>, Str)

\* C32 witness: a title with an upper-case letter and white space around a
\* removed character was saved as b-7.md, and the blog folder was made.
C32_Witness ==
    /\ pipeProc.pc = "returned"
    /\ pipeProc.title = <<"B", " ", "-", "\t", "7">>
    /\ pipeProc.blogBefore = NoPosts
    /\ pipeProc.filePath = PostPath(<<"b", "-", "7">>)
    /\ DOMAIN blog = {BlogFolder, PostPath(<<"b", "-", "7">>)}

\* ---------------------------------------------------------------------
\* Slugs of the catalog.

Saved(r) == pipelineLog[r].logs = <<"saved">>

\* C36: no two distinct entries of the catalog have the same slug, so a run
\* that saves its post leaves the post files that earlier runs wrote for
\* other topics as they were written.
C36_NoSlugCollision ==
    /\ Len(pipelineLog) = 0 =>
            \A i, j \in 1..Len(topics) :
                i # j => slug(topics[i]) # slug(topics[j])
    /\ \A r \in Runs : \A q \in 1..(r - 1) :
            /\ Saved(r)
            /\ Saved(q)
            /\ pipelineLog[q].topic # pipelineLog[r].topic
            => LET written == savePostPath(pipelineLog[q].topic.title)
               IN  /\ written # savePostPath(pipelineLog[r].topic.title)
                   /\ pipelineLog[r].blogAfter[written] = pipelineLog[q].blogAfter[written]

\* C36 witness: two runs over the shipped catalog saved the posts of two
\* topics, and both files are in the blog folder.
C36_Witness ==
    /\ topics = ShippedTopics
    /\ Len(pipelineLog) = 2
    /\ Saved(1)
    /\ Saved(2)
    /\ pipelineLog[1].topic # pipelineLog[2].topic
    /\ DOMAIN blog = {BlogFolder, savePostPath(pipelineLog[1].topic.title),
                      savePostPath(pipelineLog[2].topic.title)}
    /\ Cardinality(DOMAIN blog) = 3

\* ---------------------------------------------------------------------
\* fetchPost on topics that lack a title or an about text.

\* Values of a property of a topic: absent, null, "" or a text.
PropertyValues == {Undefined, Null, EmptyString, Str}

\* Topics without a title or without an about text.
IncompleteTopics ==
    { [title |-> a, about |-> b] : a, b \in PropertyValues } \ {[title |-> Str, about |-> Str]}

\* What getNextTopic can hand to fetchPost: nothing, an incomplete entry, or
\* an entry of the shipped catalog.
FetchPostArguments ==
    {Undefined, Null} \cup IncompleteTopics \cup { [title |-> t] : t \in Range(ShippedTopics) }

\* The pipeline script after getNextTopic has returned topic.
InitFetchPost ==
    /\ workflowTracker = Missing
    /\ clock = 0
    /\ gateLog = <<>>
    /\ gateProc = GateIdle
    /\ topics = ShippedTopics
    /\ topicTracker = Missing
    /\ cursorLog = <<>>
    /\ cursorProc = CursorIdle
    /\ pipelineLog = <<>>
    /\ blog = NoPosts
    /\ \E topic \in FetchPostArguments :
            pipeProc = [PipeIdle EXCEPT !.pc = "fetchPost", !.topic = topic,
                            !.calls = <<Call("getNextTopic", Undefined, Undefined)>>]
    /\ racers = NoRacers

NextFetchPost ==
    \/ \E response \in Responses : PipeFetchPost(response)
    \/ PipeSavePost
    \/ \E opened \in BOOLEAN : PipeSavePostFails(opened)
    \/ PipeLogSuccess
    \/ PipeCatch

SpecFetchPost == InitFetchPost /\ [][NextFetchPost]_vars

\* The topic is missing, or has no title, or has no about text.
Rejected(topic) == topic \in {Undefined, Null} \cup IncompleteTopics

\* C31: fetchPost throws for a topic that is missing or has no title or no
\* about text, whatever the API would answer; the error is not turned into
\* fallback content: savePost is not called, the run logs the error and the
\* blog folder is as it was.
C31_IncompleteTopicRejected ==
    /\ \A topic \in {Undefined, Null} \cup IncompleteTopics :
            /\ fetchPostThrows(topic)
            /\ \A response \in Responses :
                    fetchPost(topic, response) = [threw |-> TRUE, content |-> Undefined]
    /\ pipeProc.pc \in {"savePost", "log"} => ~Rejected(pipeProc.topic)
    /\ \A r \in Runs :
            Rejected(pipelineLog[r].topic) =>
                /\ pipelineLog[r].threw = "fetchPost"
                /\ Called(r) = <<"getNextTopic", "fetchPost">>
                /\ pipelineLog[r].logs = <<"error">>
                /\ pipelineLog[r].blogAfter = pipelineLog[r].blogBefore

\* C31 witness: a run whose topic had a title but an empty about text ended in
\* the catch block, and no file was written.
C31_Witness ==
    \E r \in Runs :
        /\ pipelineLog[r].topic = [title |-> Str, about |-> EmptyString]
        /\ pipelineLog[r].threw = "fetchPost"
        /\ pipelineLog[r].logs = <<"error">>
        /\ blog = NoPosts

\* ---------------------------------------------------------------------
\* The gate under a clock that may go back.

\* A number greater than 8.64e15, the largest time value of Date: it is
\* later than every reading of the clock, new Date() of it is an invalid
\* date, and the model does no arithmetic with it.
BeyondDateRange == [t |-> "numberBeyondDate", v |-> 0]

\* Records whose lastRan is a number.
NumericRecords ==
    { Json(Num(t)) : t \in { u \in Times : u <= HOURS_36_IN_MS + MaxOffset } \cup {0} }
        \cup {Json(BeyondDateRange)}

\* One gate check, whatever Date.now() reads.
ShouldRunAnyTime(now) ==
    /\ Len(gateLog) < MaxChecks
    /\ clock' = now
    /\ workflowTracker' = shouldRunFile(workflowTracker, now)
    /\ gateLog' = Append(gateLog,
                    [now |-> now,
                     before |-> workflowTracker,
                     result |-> shouldRunResult(workflowTracker, now),
                     after |-> shouldRunFile(workflowTracker, now)])
    /\ UNCHANGED <<cursorVars, pipelineLog, pipeVars, racers, gateProc>>

InitGateAnyClock ==
    /\ workflowTracker \in NumericRecords
    /\ clock = 0
    /\ gateLog = <<>>
    /\ topics = ShippedTopics
    /\ topicTracker = Missing
    /\ cursorLog = <<>>
    /\ pipelineLog = <<>>
    /\ gateProc = GateIdle
    /\ cursorProc = CursorIdle
    /\ blog = NoPosts
    /\ pipeProc = PipeIdle
    /\ racers = NoRacers

NextGateAnyClock == \E now \in Times \cup {0} : ShouldRunAnyTime(now)

SpecGateAnyClock == InitGateAnyClock /\ [][NextGateAnyClock]_vars

\* The check was made at a time earlier than the lastRan of the record.
EarlierThanLastRan(i) ==
    /\ gateLog[i].before.kind = "json"
    /\ \/ gateLog[i].before.val = BeyondDateRange
       \/ /\ IsNum(gateLog[i].before.val)
          /\ gateLog[i].now < gateLog[i].before.val.v

\* C33: with a numeric record and any non-negative clock readings, a check
\* whose now is earlier than the persisted lastRan returns false and leaves
\* the record unchanged.
C33_EarlierCheckDenied ==
    \A i \in GateChecks :
        EarlierThanLastRan(i) =>
            /\ gateLog[i].result = "false"
            /\ gateLog[i].after = gateLog[i].before

\* The same for the records whose lastRan is a valid time value.
C33_EarlierCheckDeniedInDateRange ==
    \A i \in GateChecks :
        EarlierThanLastRan(i) /\ gateLog[i].before.val # BeyondDateRange =>
            /\ gateLog[i].result = "false"
            /\ gateLog[i].after = gateLog[i].before

\* The clock went back and the check was denied.
C33_ClockWentBack ==
    \E i \in GateChecks :
        /\ i > 1
        /\ gateLog[i].now < gateLog[i - 1].now
        /\ gateLog[i - 1].result = "true"
        /\ EarlierThanLastRan(i)
        /\ gateLog[i].result = "false"

\* ---------------------------------------------------------------------
\* The gate checked again and again while the clock advances.

\* Clock readings one cooldown apart; the last one is more than a cooldown
\* after every lastRan of the records below and stands for every later
\* reading as well.
LaterTimes == { k * HOURS_36_IN_MS + MaxOffset : k \in 0..(MaxWindows + 1) }
LastTime == (MaxWindows + 1) * HOURS_36_IN_MS + MaxOffset

\* The scheduler starts the gate script at a later reading of the clock.
GateStart(now) ==
    /\ gateProc.pc = "idle"
    /\ now > clock \/ (now = clock /\ clock = LastTime)
    /\ clock' = now
    /\ gateProc' = [GateIdle EXCEPT !.pc = "shouldRun", !.now = now,
                                    !.before = workflowTracker]
    /\ UNCHANGED <<workflowTracker, gateLog, cursorVars, pipelineLog, pipeVars, racers>>

\* shouldRun() and the end of the script: exit with 0 or 1, or the uncaught
\* exception of the log line.
GateEnd ==
    /\ gateProc.pc = "shouldRun"
    /\ workflowTracker' = shouldRunFile(workflowTracker, gateProc.now)
    /\ gateProc' = [gateProc EXCEPT !.pc = "idle",
                        !.lastRan = getLastRan(workflowTracker),
                        !.result = shouldRunResult(workflowTracker, gateProc.now)]
    /\ UNCHANGED <<clock, gateLog, cursorVars, pipelineLog, pipeVars, racers>>

InitGateFair ==
    /\ workflowTracker \in WorkflowTrackerFiles \cup {Json(BeyondDateRange)}
    /\ clock = 0
    /\ gateLog = <<>>
    /\ topics = ShippedTopics
    /\ topicTracker = Missing
    /\ cursorLog = <<>>
    /\ pipelineLog = <<>>
    /\ gateProc = GateIdle
    /\ cursorProc = CursorIdle
    /\ blog = NoPosts
    /\ pipeProc = PipeIdle
    /\ racers = NoRacers

NextGateFair ==
    \/ \E now \in LaterTimes : GateStart(now)
    \/ GateEnd

\* The scheduler starts the gate script again and again, and a script that
\* was started runs to its end.
SpecGateFair == InitGateFair /\ [][NextGateFair]_vars /\ WF_vars(NextGateFair)

CheckGranted == gateProc.pc = "idle" /\ gateProc.result = "true"

\* C34: whatever the timestamp record holds, if the gate is checked again
\* and again while the clock advances, some check eventually returns true.
C34_GateCannotDenyForever == <>CheckGranted

\* The same for the records whose lastRan the log line can print.
C34_GrantedUnlessLogThrows ==
    ~LogThrows(getLastRan(workflowTracker)) => <>CheckGranted

\* A record with a lastRan later than the first readings of the clock was
\* granted at a later one.
C34_GrantedAfterLastRan ==
    /\ CheckGranted
    /\ gateProc.before = Json(Num(HOURS_36_IN_MS + MaxOffset))
    /\ gateProc.now >= 2 * HOURS_36_IN_MS + MaxOffset

====
